---------------------------- MODULE Spec2Model ----------------------------
(***************************************************************************)
(* Caterva2: publisher roots (services/pubroot.py), the client API         *)
(* (api.py), the broker / publisher / subscriber protocol they bind to,    *)
(* the HDF5 export tool and the services harness of the tests.             *)
(*                                                                         *)
(* The module holds several specifications, one per part of the system:    *)
(*   SpecPath   DirectoryRoot path validation (_rel_to_abs and its users)  *)
(*   SpecEtag   DirectoryRoot.get_dset_etag under writes to a dataset      *)
(*   SpecList   Root(...) constructions against a subscriber of the root   *)
(*   SpecSlice  File.__getitem__ / File.fetch of one slice of a dataset    *)
(*   SpecSub    concurrent slice requests on the subscriber while the      *)
(*              dataset is rewritten on the publisher                      *)
(*   SpecReg    publishers racing to register roots with the broker        *)
(*   SpecCap    calls of the methods that PubRoot declares                 *)
(*   SpecWatch  awatch_dsets while files of the root change                *)
(*   SpecDownload  File.download / get_download_url / fetch of a dataset   *)
(*   SpecClient the HTTP requests of a Root and its File                   *)
(*   SpecExport tools/hdf5_to_cat2.py: export of an HDF5 file              *)
(*   SpecServices  tests/services.py: main() and the services fixture      *)
(* Every specification owns a group of variables and leaves the others at  *)
(* their idle values.                                                      *)
(***************************************************************************)
EXTENDS Integers, Sequences, FiniteSets, TLC

(***************************************************************************)
(* Bounds of the model.                                                    *)
(***************************************************************************)
\* Longest request path, in components.
MaxParts == 2
\* Largest dataset file, in bytes.
MaxSize == 1
\* Last tick of the filesystem clock (st_mtime granularity).
MaxClock == 1
\* Deepest nesting of files under a root directory.
TreeDepth == 2
\* Largest extent of a one-dimensional dataset.
MaxExtent == 4
\* How far the upper bound of a slice may exceed the extent.
Over == 1
\* Number of versions of the dataset the publisher's owner writes.
MaxVer == 2
\* Number of registrations the broker handles.
MaxRegs == 4
\* Number of HTTP requests a Root and its File issue.
MaxRequests == 5
\* Number of nodes of the HDF5 file that is exported.
MaxNodes == 3

(***************************************************************************)
(* The publisher's filesystem.  A directory is a function from names to    *)
(* nodes; a node is absent, a file (bytes, mtime) or a directory.          *)
(***************************************************************************)
Names == {"a", "b", "c"}
\* The names given to directories.
DirNames == {"b"}
\* The order in which a directory is scanned.
NameOrder == <<"a", "b", "c">>
Bytes == {0, 1}

NoNode == [kind |-> "none"]
FileNode(data, mtime) == [kind |-> "file", data |-> data, mtime |-> mtime]
DirNode(sub) == [kind |-> "dir", sub |-> sub]
EmptyDir == [n \in Names |-> NoNode]

\* All byte strings of length at most n.
RECURSIVE BytesUpTo(_)
BytesUpTo(n) ==
    IF n = 0 THEN {<< >>}
    ELSE BytesUpTo(n - 1) \cup
         {Append(s, b) : s \in {t \in BytesUpTo(n - 1) : Len(t) = n - 1}, b \in Bytes}

Contents == BytesUpTo(MaxSize)

VARIABLES
    fs,         \* the tree under DirectoryRoot.abspath
    now,        \* the filesystem clock
    pathOp,     \* SpecPath: the last DirectoryRoot method called
    pathReq,    \* SpecPath: its relpath argument
    pathRes,    \* SpecPath: what it returned or raised
    touched,    \* SpecPath: absolute locations the call accessed on disk
    etagRead,   \* SpecEtag: the latest (etag, bytes) read of the dataset
    etagSeen,   \* SpecEtag: an earlier (etag, bytes) read of the dataset
    registry,   \* broker: root name -> endpoint of the publisher bound to it
    subCatalog, \* subscriber: root name -> the catalog recorded on subscribe
    firstSub,   \* subscriber: root name -> its state after the first subscribe
    rootObj,    \* client: the Root object under construction or constructed
    apiRet,     \* client: what the last api.subscribe(root) call returned
    dataset,    \* SpecSlice: the dataset the File object stands for
    slc,        \* SpecSlice: the slice given to File.__getitem__ / File.fetch
    slicePc,    \* SpecSlice: "idle", "sent" (request on the wire) or "done"
    wire,       \* SpecSlice: the parameters of the /api/fetch request
    fetched,    \* SpecSlice: the chunks the subscriber fetched for the request
    result,     \* SpecSlice: what the client call returned or raised
    ver,        \* SpecSub: the version of the dataset's content on the publisher
    subEtag,    \* SpecSub: the ETag the subscriber has recorded for the dataset
    shadow,     \* SpecSub: the shadow container, chunk index -> chunk or hole
    fetches,    \* SpecSub: request -> chunk index -> its fetch from the publisher
    req,        \* SpecSub: the slice requests being served
    called,     \* SpecSub: the (chunk, ETag) pairs /api/chunk has served
    dupCall,    \* SpecSub: /api/chunk has served some (chunk, ETag) pair twice
    serving,    \* SpecReg: publisher endpoint -> the roots it serves
    pending,    \* SpecReg: the POST /api/register requests on their way
    bus,        \* SpecReg: publisher endpoint -> the signals on its bus channel
    lastReg,    \* SpecReg: root name -> who sent the last registration handled
    nRegs,      \* SpecReg: the number of registrations handled
    roots,      \* SpecReg: what the last get_roots() returned
    rootsAt,    \* SpecReg: lastReg when get_roots() was answered
    capOp,      \* SpecCap: the PubRoot operation called on the DirectoryRoot
    capReq,     \* SpecCap: its relpath argument
    capRes,     \* SpecCap: what the call returned or raised
    watchPc,    \* SpecWatch: the async generator of awatch_dsets: none, created, raised
    watchErr,   \* SpecWatch: the exception that ended the generator
    changed,    \* SpecWatch: the files changed since the last batch
    batches,    \* SpecWatch: the batches the generator has yielded
    dlFile,     \* SpecDownload: the File object: its path and the dataset it stands for
    dlOp,       \* SpecDownload: the method called on it
    dlArgs,     \* SpecDownload: the positional arguments of the call
    dlPc,       \* SpecDownload: idle, sent (request on the wire) or done
    dlUrl,      \* SpecDownload: the URL or parameters of the request
    dlLocal,    \* SpecDownload: the file the client wrote: its path and content
    dlRes,      \* SpecDownload: what the call returned or raised
    cliRoot,    \* SpecClient: the Root object under construction or constructed
    cliFile,    \* SpecClient: the File object obtained from the Root
    cliLog,     \* SpecClient: the HTTP requests the Root and its File have issued
    h5Pc,       \* SpecExport: position of export()
    h5Seen,     \* SpecExport: the HDF5 nodes visited so far, in order
    c2fs,       \* SpecExport: the file system at and under the Caterva2 root
    c2Before,   \* SpecExport: the file system when export() was called
    h5Log,      \* SpecExport: the logging records
    svcPc,      \* SpecServices: position of the harness (main or the services fixture)
    svcMode,    \* SpecServices: how the harness runs: as the fixture or as the script
    svcEnv,     \* SpecServices: the environment variables that are set to 1
    svcKind,    \* SpecServices: the class of srvs
    svcExt,     \* SpecServices: what answers at each service's endpoint besides a child
    svcCur,     \* SpecServices: the service that a loop of the harness is at
    svcPolls,   \* SpecServices: polls of the service being started
    svcChild,   \* SpecServices: the child process of each service
    svcSpawned, \* SpecServices: the children in _procs, in order
    svcPassed,  \* SpecServices: services whose check returned true after their start
    svcPre,     \* SpecServices: result of each service's check before its start
    svcSignals, \* SpecServices: the signals sent, in order
    svcSkipped, \* SpecServices: children that stop_all found missing
    svcErr,     \* SpecServices: the exception that is propagating
    svcStopped  \* SpecServices: stop_all was called

pubVars == <<fs, now>>
pathVars == <<pathOp, pathReq, pathRes, touched>>
etagVars == <<etagRead, etagSeen>>
listVars == <<registry, subCatalog, firstSub, rootObj, apiRet>>
sliceVars == <<dataset, slc, slicePc, wire, fetched, result>>
subVars == <<ver, subEtag, shadow, fetches, req, called, dupCall>>
regVars == <<serving, pending, bus, lastReg, nRegs, roots, rootsAt>>
capVars == <<capOp, capReq, capRes>>
watchVars == <<watchPc, watchErr, changed, batches>>
dlVars == <<dlFile, dlOp, dlArgs, dlPc, dlUrl, dlLocal, dlRes>>
cliVars == <<cliRoot, cliFile, cliLog>>
h5Vars == <<h5Pc, h5Seen, c2fs, c2Before, h5Log>>
svcVars == <<svcPc, svcMode, svcEnv, svcKind, svcExt, svcCur, svcPolls, svcChild, svcSpawned, svcPassed, svcPre, svcSignals, svcSkipped, svcErr, svcStopped>>
moreVars == <<capVars, watchVars, dlVars, cliVars, h5Vars, svcVars>>
vars == <<pubVars, pathVars, etagVars, listVars, sliceVars, subVars, regVars, moreVars>>

\* What the actions of each specification leave alone.
outsidePath == <<etagVars, listVars, sliceVars, subVars, regVars, moreVars>>
outsideEtag == <<pathVars, listVars, sliceVars, subVars, regVars, moreVars>>
outsideList == <<pathVars, etagVars, sliceVars, subVars, regVars, moreVars>>
outsideSlice == <<pubVars, pathVars, etagVars, listVars, subVars, regVars, moreVars>>
outsideSub == <<pathVars, etagVars, listVars, sliceVars, regVars, moreVars>>
outsideReg == <<pubVars, pathVars, etagVars, sliceVars, subVars,
                subCatalog, firstSub, rootObj, apiRet, moreVars>>
oldVars == <<pathVars, etagVars, listVars, sliceVars, subVars, regVars>>
besidesCap == <<watchVars, dlVars, cliVars, h5Vars, svcVars>>
outsideCap == <<oldVars, besidesCap>>
besidesWatch == <<capVars, dlVars, cliVars, h5Vars, svcVars>>
outsideWatch == <<oldVars, besidesWatch>>
besidesDl == <<capVars, watchVars, cliVars, h5Vars, svcVars>>
outsideDl == <<oldVars, besidesDl>>
besidesCli == <<capVars, watchVars, dlVars, h5Vars, svcVars>>
outsideCli == <<oldVars, besidesCli>>
besidesH5 == <<capVars, watchVars, dlVars, cliVars, svcVars>>
outsideH5 == <<oldVars, besidesH5>>
besidesSvc == <<capVars, watchVars, dlVars, cliVars, h5Vars>>
outsideSvc == <<oldVars, besidesSvc>>
outsideCliSub == <<pathVars, etagVars, sliceVars, subVars, regVars,
                   registry, rootObj, apiRet, besidesCli>>

(***************************************************************************)
(* pathlib.PurePosixPath (PubRoot.Path).                                   *)
(***************************************************************************)
ParDir == ".."
CurDir == "."
Comps == Names \cup {ParDir, CurDir}

\* Path instantiation from a request string: a leading "/" makes the path
\* absolute, "." components are dropped, ".." components are kept.
PosixPath(leadingSlash, comps) ==
    [abs |-> leadingSlash, parts |-> SelectSeq(comps, LAMBDA c : c # CurDir)]

is_absolute(p) == p.abs

\* The "/" operator: an absolute right operand replaces the left one.
JoinPath(base, p) == IF p.abs THEN p.parts ELSE base \o p.parts

\* What the operating system resolves an absolute location to (no links):
\* ".." steps to the parent, and stays at "/" at the top.
RECURSIVE Normalize(_)
Normalize(parts) ==
    IF parts = << >> THEN << >>
    ELSE LET front == Normalize(SubSeq(parts, 1, Len(parts) - 1))
             last == parts[Len(parts)]
         IN  IF last = ParDir
             THEN (IF front = << >> THEN << >> ELSE SubSeq(front, 1, Len(front) - 1))
             ELSE Append(front, last)

IsPrefix(s, t) == Len(s) <= Len(t) /\ SubSeq(t, 1, Len(s)) = s

(***************************************************************************)
(* DirectoryRoot.                                                          *)
(***************************************************************************)
\* self.abspath, the resolved root directory.
RootAbsPath == <<"srv", "pub">>

\* Files of the host that are not under the root.
OutsideFiles == {<<"srv", "a">>, <<"a">>, <<"srv", "b", "a">>}
OutsideNode == FileNode(<<1>>, 0)

Inside(abs) == IsPrefix(RootAbsPath, abs)

RECURSIVE Lookup(_, _)
Lookup(tree, parts) ==
    IF parts = << >> THEN DirNode(tree)
    ELSE IF Head(parts) \notin DOMAIN tree THEN NoNode
    ELSE LET node == tree[Head(parts)]
         IN  IF Len(parts) = 1 THEN node
             ELSE IF node.kind = "dir" THEN Lookup(node.sub, Tail(parts))
             ELSE NoNode

\* The node at an absolute location of the host.
NodeAt(abs) ==
    LET loc == Normalize(abs)
    IN  IF Inside(loc) THEN Lookup(fs, SubSeq(loc, Len(RootAbsPath) + 1, Len(loc)))
        ELSE IF loc \in OutsideFiles THEN OutsideNode
        ELSE NoNode

Ok(val) == [tag |-> "ok", val |-> val]
Raise(exc) == [tag |-> exc, val |-> << >>]
ValueError == "ValueError"
FileNotFoundError == "FileNotFoundError"

\* A variant of _rel_to_abs without the check for absolute paths.
RelToAbsNoAbsCheck(relpath) ==
    IF ParDir \in {relpath.parts[i] : i \in DOMAIN relpath.parts}
    THEN Raise(ValueError)
    ELSE Ok(JoinPath(RootAbsPath, relpath))

\* A variant of _rel_to_abs without the check for ".." components.
RelToAbsNoParCheck(relpath) ==
    IF is_absolute(relpath) THEN Raise(ValueError)
    ELSE Ok(JoinPath(RootAbsPath, relpath))

_rel_to_abs(relpath) ==
    IF is_absolute(relpath) THEN Raise(ValueError)
    ELSE IF ParDir \in {relpath.parts[i] : i \in DOMAIN relpath.parts}
    THEN Raise(ValueError)
    ELSE Ok(JoinPath(RootAbsPath, relpath))

\* os.stat of a file: (st_mtime, st_size).
Stat(node) == [st_mtime |-> node.mtime, st_size |-> Len(node.data)]

\* The f-string '{st_mtime}:{st_size}'.
EtagString(stat) == <<stat.st_mtime, ":", stat.st_size>>

exists_dset(relpath) ==
    LET abspath == _rel_to_abs(relpath)
    IN  IF abspath.tag # "ok" THEN abspath
        ELSE Ok(NodeAt(abspath.val).kind = "file")

get_dset_etag(relpath) ==
    LET abspath == _rel_to_abs(relpath)
    IN  IF abspath.tag # "ok" THEN abspath
        ELSE LET node == NodeAt(abspath.val)
             IN  IF node.kind = "none" THEN Raise(FileNotFoundError)
                 ELSE IF node.kind = "dir" THEN Ok(EtagString([st_mtime |-> 0, st_size |-> 0]))
                 ELSE Ok(EtagString(Stat(node)))

\* srv_utils.read_metadata of a file: the metadata object of section 4.1.
read_metadata(node) ==
    IF node.kind = "file"
    THEN Ok([kind |-> "file", chunk_count |-> 1, chunk_sizes |-> <<Len(node.data)>>])
    ELSE Raise(FileNotFoundError)

get_dset_meta(relpath) ==
    LET abspath == _rel_to_abs(relpath)
    IN  IF abspath.tag # "ok" THEN abspath
        ELSE read_metadata(NodeAt(abspath.val))

\* The locations a DirectoryRoot method accesses for relpath: the one
\* _rel_to_abs returned, none when it raised.
Accessed(relpath) ==
    LET abspath == _rel_to_abs(relpath)
    IN  IF abspath.tag # "ok" THEN {} ELSE {Normalize(abspath.val)}

\* pathlib.Path.glob('**/*') below a directory: every entry of the
\* directory and, after each subdirectory, the entries below it.
RECURSIVE GlobFrom(_, _, _)
GlobFrom(tree, prefix, i) ==
    IF i > Len(NameOrder) THEN << >>
    ELSE LET n == NameOrder[i]
             node == tree[n]
             here == IF node.kind = "none" THEN << >> ELSE <<prefix \o <<n>>>>
             below == IF node.kind = "dir" THEN GlobFrom(node.sub, prefix \o <<n>>, 1)
                      ELSE << >>
         IN  here \o below \o GlobFrom(tree, prefix, i + 1)

\* pathlib.Path.glob('*'): the entries of the directory itself.
RECURSIVE GlobTop(_, _, _)
GlobTop(tree, prefix, i) ==
    IF i > Len(NameOrder) THEN << >>
    ELSE (IF tree[NameOrder[i]].kind = "none" THEN << >> ELSE <<prefix \o <<NameOrder[i]>>>>)
         \o GlobTop(tree, prefix, i + 1)

is_dir(abs) == NodeAt(abs).kind = "dir"
relative_to(abs, base) == SubSeq(abs, Len(base) + 1, Len(abs))

RECURSIVE MapRelative(_)
MapRelative(paths) ==
    IF paths = << >> THEN << >>
    ELSE <<relative_to(Head(paths), RootAbsPath)>> \o MapRelative(Tail(paths))

\* A variant of walk_dsets that does not descend into subdirectories.
WalkDsetsTopOnly ==
    MapRelative(SelectSeq(GlobTop(fs, RootAbsPath, 1), LAMBDA p : ~is_dir(p)))

\* A variant of walk_dsets that keeps directories.
WalkDsetsWithDirs == MapRelative(GlobFrom(fs, RootAbsPath, 1))

walk_dsets ==
    MapRelative(SelectSeq(GlobFrom(fs, RootAbsPath, 1), LAMBDA p : ~is_dir(p)))

(***************************************************************************)
(* The services the client API talks to.  The broker registry maps a root  *)
(* name to the endpoint of its publisher; the publisher lists its          *)
(* DirectoryRoot; the subscriber records the catalog on subscribe.         *)
(***************************************************************************)
RootNames == {"foo", "bar"}
\* TEST_DEFAULT_ROOT, the root the publisher serves.
PublishedRoot == "foo"
pub_host_default == "localhost:8001"
sub_host_default == "localhost:8002"
NoEndpoint == "none"

KnownRoots == {r \in RootNames : registry[r] # NoEndpoint}

\* Publisher, GET /api/list: the dataset paths of the root.
PubGetList == walk_dsets

NotSubscribed == [subscribed |-> FALSE, nodes |-> << >>]
Subscribed(nodes) == [subscribed |-> TRUE, nodes |-> nodes]

\* Subscriber, POST /api/subscribe/<root>: the response, and the catalog
\* it leaves for the root.
SubPostSubscribe(root) ==
    IF root \in KnownRoots
    THEN [body |-> "Ok", catalog |-> Subscribed(PubGetList)]
    ELSE [body |-> "NoSuchRoot", catalog |-> subCatalog[root]]

\* Subscriber, GET /api/list/<root>: the cached catalog.
SubGetList(root) ==
    IF subCatalog[root].subscribed THEN Ok(subCatalog[root].nodes)
    ELSE Raise("NotFound")

\* Subscriber and broker, GET /api/roots.
SubGetRoots == [r \in KnownRoots |-> [name |-> r, http |-> registry[r]]]

\* The endpoints of the publishers that may register a root.
Publishers == {pub_host_default, "localhost:8011"}

\* Broker, POST /api/register {root, endpoint}: the new registry and the
\* prior endpoint.  A variant where the first registration of a root wins.
RegisterFirstWins(reg, root, endpoint) ==
    [registry |-> IF reg[root] = NoEndpoint THEN [reg EXCEPT ![root] = endpoint] ELSE reg,
     prior |-> reg[root]]

Register(reg, root, endpoint) ==
    [registry |-> [reg EXCEPT ![root] = endpoint], prior |-> reg[root]]

\* The eviction signal for a root.
Eviction(root) == [signal |-> "evict", root |-> root]

\* The bus channels after a registration displaced the prior endpoint.
Evict(channels, prior, root, endpoint) ==
    IF prior \in Publishers /\ prior # endpoint
    THEN [channels EXCEPT ![prior] = Append(@, Eviction(root))]
    ELSE channels

(***************************************************************************)
(* The client API (api.py).                                                *)
(***************************************************************************)
\* get_roots(): GET /api/roots of the subscriber.
get_roots == SubGetRoots

\* The URL of a POST /api/subscribe request.  A variant that names the host
\* where the root belongs.
SubscribeUrlOfHost(host, root) == <<host, "api", "subscribe", host>>

SubscribeUrl(host, root) == <<host, "api", "subscribe", root>>
ListUrl(host, root) == <<host, "api", "list", root>>

\* The subscriber's answer to a POST of a subscribe URL.
PostSubscribe(url) ==
    IF url[1] = sub_host_default /\ url[4] \in RootNames
    THEN SubPostSubscribe(url[4])
    ELSE [body |-> "NotFound", catalog |-> << >>]

PostedRoot(url) == url[4]

NewRoot == [pc |-> "new", name |-> "", host |-> "", ret |-> "", node_list |-> << >>]

(***************************************************************************)
(* Datasets and slices.  A dataset has a kind, a shape and a chunk shape;  *)
(* element (i, j, ...) of the source holds its row-major position plus     *)
(* one, so that no element is zero, the value a hole of a container reads  *)
(* as.                                                                     *)
(***************************************************************************)
\* Python's None as a bound or step of a slice.
NoneVal == -1

Dataset(kind, shape, chunks) == [kind |-> kind, shape |-> shape, chunks |-> chunks]

IntItem(i) == [kind |-> "int", start |-> i, stop |-> NoneVal, step |-> NoneVal]
SliceItem(start, stop, step) ==
    [kind |-> "slice", start |-> start, stop |-> stop, step |-> step]

CeilDiv(a, b) == (a + b - 1) \div b
Min(a, b) == IF a < b THEN a ELSE b

\* Row-major position of a coordinate in a grid of the given extents.
RECURSIVE Linear(_, _)
Linear(coord, extents) ==
    IF coord = << >> THEN 0
    ELSE Linear(SubSeq(coord, 1, Len(coord) - 1), SubSeq(extents, 1, Len(extents) - 1))
             * extents[Len(extents)] + coord[Len(coord)]

\* The coordinates of a box, given as a sequence of ranges lo..hi-1, in
\* row-major order.
RECURSIVE Box(_, _)
RECURSIVE BoxFrom(_, _, _)
Box(ranges, prefix) ==
    IF ranges = << >> THEN <<prefix>>
    ELSE BoxFrom(Head(ranges).lo, ranges, prefix)
BoxFrom(i, ranges, prefix) ==
    IF i >= Head(ranges).hi THEN << >>
    ELSE Box(Tail(ranges), Append(prefix, i)) \o BoxFrom(i + 1, ranges, prefix)

SourceValue(ds, coord) == Linear(coord, ds.shape) + 1

\* The chunk grid of a dataset and the chunk an element lies in.
ChunkGrid(ds) == [d \in DOMAIN ds.shape |-> CeilDiv(ds.shape[d], ds.chunks[d])]
ChunkOf(ds, coord) ==
    Linear([d \in DOMAIN coord |-> coord[d] \div ds.chunks[d]], ChunkGrid(ds))

(***************************************************************************)
(* The slice wire format: a string of comma-separated items, each an       *)
(* integer or lo:hi[:step] with lo and hi optional.  A string is a         *)
(* sequence of tokens.                                                     *)
(***************************************************************************)
NumStr == <<"0", "1", "2", "3", "4", "5", "6", "7", "8", "9">>
ToStr(n) == NumStr[n + 1]
ToInt(str) == CHOOSE n \in 0..(Len(NumStr) - 1) : NumStr[n + 1] = str

OptStr(v) == IF v = NoneVal THEN << >> ELSE <<ToStr(v)>>

ItemToString(item) ==
    IF item.kind = "int" THEN <<ToStr(item.start)>>
    ELSE OptStr(item.start) \o <<":">> \o OptStr(item.stop)
         \o (IF item.step = NoneVal THEN << >> ELSE <<":", ToStr(item.step)>>)

\* api_utils.slice_to_string
RECURSIVE slice_to_string(_)
slice_to_string(slice_) ==
    IF slice_ = << >> THEN << >>
    ELSE IF Len(slice_) = 1 THEN ItemToString(Head(slice_))
    ELSE ItemToString(Head(slice_)) \o <<",">> \o slice_to_string(Tail(slice_))

\* str.split(sep)
RECURSIVE Split(_, _)
Split(str, sep) ==
    IF \A i \in DOMAIN str : str[i] # sep THEN <<str>>
    ELSE LET k == CHOOSE i \in DOMAIN str :
                      str[i] = sep /\ \A j \in 1..(i - 1) : str[j] # sep
         IN  <<SubSeq(str, 1, k - 1)>> \o Split(SubSeq(str, k + 1, Len(str)), sep)

OptInt(field) == IF field = << >> THEN NoneVal ELSE ToInt(field[1])

ParseItem(str) ==
    LET fields == Split(str, ":")
    IN  IF Len(fields) = 1 THEN IntItem(ToInt(fields[1][1]))
        ELSE SliceItem(OptInt(fields[1]), OptInt(fields[2]),
                       IF Len(fields) > 2 THEN OptInt(fields[3]) ELSE NoneVal)

\* The subscriber's parse of the slice_ parameter.
ParseSlice(str) ==
    IF str = << >> THEN << >>
    ELSE LET items == Split(str, ",")
         IN  [k \in DOMAIN items |-> ParseItem(items[k])]

(***************************************************************************)
(* Subscriber: slice -> chunk resolution (section 4.3).                    *)
(***************************************************************************)
StepError == "Only step=1 is supported"

StepSupported(items) ==
    \A k \in DOMAIN items : items[k].kind = "slice" => items[k].step \in {NoneVal, 1}

\* [lo_d, hi_d) for every dimension: an integer i is [i, i+1), a missing
\* bound is 0 or shape[d], absent dimensions are full; hi_d is clamped.
Region(ds, items) ==
    [d \in DOMAIN ds.shape |->
        IF d > Len(items) THEN [lo |-> 0, hi |-> ds.shape[d]]
        ELSE IF items[d].kind = "int"
        THEN [lo |-> items[d].start, hi |-> Min(items[d].start + 1, ds.shape[d])]
        ELSE [lo |-> IF items[d].start = NoneVal THEN 0 ELSE items[d].start,
              hi |-> IF items[d].stop = NoneVal THEN ds.shape[d]
                     ELSE Min(items[d].stop, ds.shape[d])]]

\* A variant of ChunkRanges that rounds the upper end down.
ChunkRangesFloor(ds, region) ==
    [d \in DOMAIN region |->
        [lo |-> region[d].lo \div ds.chunks[d],
         hi |-> region[d].hi \div ds.chunks[d]]]

\* The chunk range along every dimension: [lo // chunk, ceil(hi / chunk)).
ChunkRanges(ds, region) ==
    [d \in DOMAIN region |->
        [lo |-> region[d].lo \div ds.chunks[d],
         hi |-> CeilDiv(region[d].hi, ds.chunks[d])]]

\* The Cartesian product of the chunk ranges, linearized in row-major
\* order over the chunk grid.
ChunkList(ds, region) ==
    LET cells == Box(ChunkRanges(ds, region), << >>)
    IN  [k \in DOMAIN cells |-> Linear(cells[k], ChunkGrid(ds))]

\* The chunks a slice request needs.
NeededChunks(ds, items) ==
    LET list == ChunkList(ds, Region(ds, items))
    IN  {list[k] : k \in DOMAIN list}

\* Read of an element of the shadow container: a hole reads as zero.
ShadowValue(ds, present, coord) ==
    IF ChunkOf(ds, coord) \in present THEN SourceValue(ds, coord) ELSE 0

\* The shape of the answer: integer items drop their dimension of an N-d
\* container; indexing a byte stream with an integer gives one byte.
ResultShape(ds, items) ==
    LET region == Region(ds, items)
        len == [d \in DOMAIN region |->
                   IF region[d].hi > region[d].lo THEN region[d].hi - region[d].lo ELSE 0]
        kept == SelectSeq([d \in DOMAIN region |-> d],
                          LAMBDA d : ds.kind # "b2nd" \/ d > Len(items)
                                     \/ items[d].kind # "int")
    IN  [k \in DOMAIN kept |-> len[kept[k]]]

\* Subscriber, GET /api/fetch/<root>/<path>?slice_=S with the chunks in
\* `present` cached: the chunks it fetches from the publisher and the
\* response.
SubGetFetch(ds, str, present) ==
    LET items == ParseSlice(str)
    IN  IF ~StepSupported(items)
        THEN [status |-> 400, message |-> StepError, fetched |-> {},
              shape |-> << >>, elems |-> << >>]
        ELSE LET needed == NeededChunks(ds, items)
                 coords == Box(Region(ds, items), << >>)
             IN  [status |-> 200, message |-> "", fetched |-> needed \ present,
                  shape |-> ResultShape(ds, items),
                  elems |-> [k \in DOMAIN coords |->
                                ShadowValue(ds, present \cup needed, coords[k])]]

(***************************************************************************)
(* File (api.py).                                                          *)
(***************************************************************************)
\* api_utils.fetch_data: the data of a 200 response, an exception with the
\* message of any other.
fetch_data(resp) ==
    IF resp.status = 200 THEN [tag |-> "ok", status |-> resp.status, shape |-> resp.shape,
                               elems |-> resp.elems, message |-> ""]
    ELSE [tag |-> "Exception", status |-> resp.status, shape |-> << >>, elems |-> << >>,
          message |-> resp.message]

\* A variant of File.fetch that sends the start and stop of every slice
\* and leaves the step out.
RECURSIVE DropSteps(_)
DropSteps(slice_) ==
    IF slice_ = << >> THEN << >>
    ELSE <<[Head(slice_) EXCEPT !.step = NoneVal]>> \o DropSteps(Tail(slice_))
FileFetchNoStep(slice_, prefer_schunk) ==
    [slice_ |-> slice_to_string(DropSteps(slice_)), prefer_schunk |-> prefer_schunk]

\* File.fetch: the parameters of the /api/fetch request.
File_fetch(slice_, prefer_schunk) ==
    [slice_ |-> slice_to_string(slice_), prefer_schunk |-> prefer_schunk]

\* A variant of File.__getitem__ that calls fetch() without the slice.
FileGetitemNoSlice(slice_) == File_fetch(<< >>, TRUE)

\* File.__getitem__
File_getitem(slice_) == File_fetch(slice_, TRUE)

(***************************************************************************)
(* Subscriber: chunk materialization (section 4.3) for one dataset of      *)
(* fixed chunk count, one element per chunk.  Every element of version v   *)
(* of the dataset holds v.                                                 *)
(***************************************************************************)
ChunkIds == {0, 1}
Reqs == {"r1", "r2"}

Hole == [present |-> FALSE, bytes |-> 0, etag |-> << >>]
Chunk(bytes, etag) == [present |-> TRUE, bytes |-> bytes, etag |-> etag]
NoFetch == [st |-> "none", etag |-> << >>, bytes |-> 0]
SentFetch == [st |-> "sent", etag |-> << >>, bytes |-> 0]
Response(etag, bytes) == [st |-> "resp", etag |-> etag, bytes |-> bytes]
IdleReq == [pc |-> "idle", needs |-> {}, sinceMod |-> FALSE, resp |-> << >>]

\* The content of the dataset at a version.
VersionData(v) == [i \in 1..Cardinality(ChunkIds) |-> v]

\* Publisher, GET /api/chunk/<path>/<n>: the chunk and the ETag in force
\* when it is read.
PubGetChunk(n) ==
    Response(get_dset_etag(PosixPath(FALSE, <<"a">>)).val,
             NodeAt(RootAbsPath \o <<"a">>).data[n + 1])

\* Publisher, GET /api/info/<path>: the current ETag.
PubGetEtag == get_dset_etag(PosixPath(FALSE, <<"a">>)).val

\* The single-flight token of a chunk is free.  A variant that is always
\* free.
TokenFreeAlways(n) == TRUE

TokenFree(n) == \A r \in Reqs : fetches[r][n].st = "none"

\* Forget all present chunks.
Invalidated == [n \in ChunkIds |-> Hole]

(***************************************************************************)
(* The publisher-root capability set: the abstract methods of PubRoot and  *)
(* the attributes the class statement of DirectoryRoot defines.            *)
(***************************************************************************)
PubRootMethods ==
    {"walk_dsets", "exists_dset", "get_dset_etag", "get_dset_meta",
     "get_dset_chunk", "awatch_dsets"}

DirectoryRootAttrs ==
    {"Path", "__init__", "walk_dsets", "_rel_to_abs", "exists_dset",
     "get_dset_etag", "get_dset_meta", "awatch_dsets"}

AttributeError == "AttributeError"
NameError == "NameError"

\* proot.<name>(relpath) on a DirectoryRoot: the attribute lookup, then the
\* call.  Calling an async generator function returns the generator
\* without running its body.
CallMethod(name, relpath) ==
    IF name \notin DirectoryRootAttrs THEN Raise(AttributeError)
    ELSE CASE name = "walk_dsets" -> Ok(walk_dsets)
           [] name = "exists_dset" -> exists_dset(relpath)
           [] name = "get_dset_etag" -> get_dset_etag(relpath)
           [] name = "get_dset_meta" -> get_dset_meta(relpath)
           [] OTHER -> Ok("async_generator")

\* The names bound at module level in pubroot.py, and the local names of
\* awatch_dsets when watchfiles.awatch(proot.abspath) is evaluated.
ModuleGlobals ==
    {"os", "pathlib", "ABC", "abstractmethod", "AsyncIterator", "Collection",
     "Iterator", "pydantic", "watchfiles", "srv_utils", "PubRoot", "DirectoryRoot"}
AwatchLocals == {"self"}

\* The lookup of a name in the body of awatch_dsets.
NameLookup(name) ==
    IF name \in AwatchLocals \cup ModuleGlobals THEN Ok(name) ELSE Raise(NameError)

\* The batch awatch_dsets builds from the changes watchfiles reports.
Relpaths(changes) == {relative_to(abspath, RootAbsPath) : abspath \in changes}

(***************************************************************************)
(* Downloads (api.py, File.get_download_url and File.download).  A path    *)
(* is its directory parts, the stem of its name, a slice in brackets       *)
(* (empty when there is none) and the suffix of its name.                  *)
(***************************************************************************)
TypeError == "TypeError"

PathOf(parts, stem, suffix) ==
    [parts |-> parts, stem |-> stem, slice |-> << >>, suffix |-> suffix]
NoPath == PathOf(<< >>, "", "")

\* The example datasets of the published root, by kind and rank.
ExamplePath(dset) ==
    IF dset.kind = "b2nd" /\ Len(dset.shape) = 1 THEN PathOf(<<PublishedRoot>>, "ds-1d", ".b2nd")
    ELSE IF dset.kind = "b2nd" THEN PathOf(<<PublishedRoot, "dir1">>, "ds-2d", ".b2nd")
    ELSE IF dset.kind = "b2frame" THEN PathOf(<<PublishedRoot>>, "ds-hello", ".b2frame")
    ELSE PathOf(<<PublishedRoot>>, "README", ".md")

\* File.__init__: self.path = pathlib.Path(f'{self.root}/{self.name}').
FileObj(dset) ==
    [root |-> PublishedRoot,
     name |-> [ExamplePath(dset) EXCEPT !.parts = Tail(@)],
     host |-> sub_host_default,
     path |-> ExamplePath(dset),
     dset |-> dset]

\* The binding of positional arguments to the parameters that follow self.
BindArgs(nparams, args) ==
    IF Len(args) > nparams THEN Raise(TypeError) ELSE Ok(args)

\* api_utils.get_download_url(path, host)
get_download_url(path, host) == [host |-> host, prefix |-> <<"files">>, path |-> path]

\* File.get_download_url(self)
File_get_download_url(self, args) ==
    IF BindArgs(0, args).tag # "ok" THEN BindArgs(0, args)
    ELSE Ok(get_download_url(self.path, self.host))

\* A variant of File.download that stores the file under the name of the
\* dataset, without its root.
FileDownloadToName(self, args) ==
    IF BindArgs(0, args).tag # "ok" THEN [tag |-> TypeError, url |-> << >>, localpath |-> NoPath]
    ELSE [tag |-> "ok", url |-> File_get_download_url(self, << >>).val, localpath |-> self.name]

\* File.download(self): the URL requested and the local path given to
\* api_utils.download_url.
File_download(self, args) ==
    IF BindArgs(0, args).tag # "ok" THEN [tag |-> TypeError, url |-> << >>, localpath |-> NoPath]
    ELSE [tag |-> "ok", url |-> File_get_download_url(self, << >>).val, localpath |-> self.path]

\* The container library.  The coordinates of chunk n, in row-major order.
ChunkCoords(ds, n) ==
    SelectSeq(Box([d \in DOMAIN ds.shape |-> [lo |-> 0, hi |-> ds.shape[d]]], << >>),
              LAMBDA c : ChunkOf(ds, c) = n)

NChunks(ds) ==
    LET grid == ChunkGrid(ds)
        cells == Box([d \in DOMAIN grid |-> [lo |-> 0, hi |-> grid[d]]], << >>)
    IN  Len(cells)

\* serialize-to-cframe of the shadow container: the chunks, one after
\* another.  A variant that leaves the last chunk out.
ToCframeTruncated(ds, present) ==
    [kind |-> ds.kind, shape |-> ds.shape, chunks |-> ds.chunks,
     data |-> [n \in 0..(NChunks(ds) - 2) |->
                  [k \in DOMAIN ChunkCoords(ds, n) |->
                      ShadowValue(ds, present, ChunkCoords(ds, n)[k])]]]

to_cframe(ds, present) ==
    [kind |-> ds.kind, shape |-> ds.shape, chunks |-> ds.chunks,
     data |-> [n \in 0..(NChunks(ds) - 1) |->
                  [k \in DOMAIN ChunkCoords(ds, n) |->
                      ShadowValue(ds, present, ChunkCoords(ds, n)[k])]]]

\* blosc2.open(path)[:] / deserialize-from-cframe: the elements in
\* row-major order; a chunk the frame lacks reads as zero.
OpenAll(frame) ==
    LET ds == Dataset(frame.kind, frame.shape, frame.chunks)
        coords == Box([d \in DOMAIN ds.shape |-> [lo |-> 0, hi |-> ds.shape[d]]], << >>)
        At(c) == LET n == ChunkOf(ds, c)
                     cc == ChunkCoords(ds, n)
                     k == CHOOSE j \in DOMAIN cc : cc[j] = c
                 IN  IF n \in DOMAIN frame.data THEN frame.data[n][k] ELSE 0
    IN  [i \in DOMAIN coords |-> At(coords[i])]

\* Subscriber, GET /files/<root>/<path> with the chunks in `present`
\* cached: every missing chunk is fetched, the container is served.
SubGetFile(ds, present) ==
    LET needed == 0..(NChunks(ds) - 1)
    IN  [status |-> 200, fetched |-> needed \ present,
         body |-> to_cframe(ds, present \cup needed)]

\* api_utils.download_url(url, localpath): the body of the response is
\* written to localpath, which is returned.
download_url(resp, localpath) == [path |-> localpath, content |-> resp.body]

NoLocal == [path |-> NoPath, content |-> << >>]

(***************************************************************************)
(* The HTTP requests of Root and File (api.py): the operation, the URL     *)
(* and the auth cookie sent with it.                                       *)
(***************************************************************************)
NoCookie == << >>
\* user_auth: "" stands for None or an empty mapping.
UserAuths == {"", "user"}

\* api_utils.get_auth_cookie(host, user_auth)
get_auth_cookie(host, user_auth) == <<"fastapiusersauth", host, user_auth>>

Request(op, url, auth_cookie) == [op |-> op, url |-> url, auth_cookie |-> auth_cookie]

\* Root.__init__: self.auth_cookie.
RootAuthCookie(host, user_auth) ==
    IF user_auth # "" THEN get_auth_cookie(host, user_auth) ELSE NoCookie

\* Root.__init__: if ret != 'Ok'.  A variant that never takes the branch.
SubscribeFailedNever(ret) == FALSE

SubscribeFailed(ret) == ret # "Ok"

\* get_roots(host) as Root.__init__ calls it: auth_cookie keeps its
\* default, None.
RootsRequest(self) == Request("roots", <<self.host, "api", "roots">>, NoCookie)

SubscribeRequest(self) ==
    Request("subscribe", SubscribeUrl(self.host, self.name), self.auth_cookie)
ListRequest(self) == Request("list", ListUrl(self.host, self.name), self.auth_cookie)

\* File.__init__, File.fetch, File.get_download_url, File.download.
FilePathOf(self) == <<self.root>> \o self.name
InfoRequest(self) ==
    Request("info", <<self.host, "api", "info">> \o FilePathOf(self), self.auth_cookie)
FetchRequest(self) ==
    Request("fetch", <<self.host, "api", "fetch">> \o FilePathOf(self), self.auth_cookie)
DownloadUrlRequest(self) ==
    Request("download_url", <<self.host, "api", "download">> \o FilePathOf(self),
            self.auth_cookie)
DownloadRequest(self) ==
    Request("download", <<self.host, "files">> \o FilePathOf(self), self.auth_cookie)

NoRoot ==
    [pc |-> "new", name |-> "", host |-> "", auth_cookie |-> NoCookie, ret |-> "",
     has_node_list |-> FALSE, node_list |-> << >>, error |-> "", available |-> {}]
NoFile == [pc |-> "none", root |-> "", name |-> << >>, host |-> "", auth_cookie |-> NoCookie]

(***************************************************************************)
(* Initial states.                                                         *)
(***************************************************************************)
\* The example root: a, b/a.
ExampleTree ==
    [n \in Names |->
        IF n = "a" THEN FileNode(<< >>, 0)
        ELSE DirNode([m \in Names |-> IF m = "a" THEN FileNode(<<0>>, 0) ELSE NoNode])]

NoRead == [tag |-> "none", val |-> << >>, bytes |-> << >>]

IdlePath ==
    /\ pathOp = "none"
    /\ pathReq = PosixPath(FALSE, << >>)
    /\ pathRes = Raise("none")
    /\ touched = {}

IdleEtag ==
    /\ etagRead = NoRead
    /\ etagSeen = NoRead

IdlePub ==
    /\ fs = ExampleTree
    /\ now = 0

NoResult == [tag |-> "none", status |-> 0, shape |-> << >>, elems |-> << >>, message |-> ""]

IdleSlice ==
    /\ dataset = Dataset("file", <<1>>, <<1>>)
    /\ slc = << >>
    /\ slicePc = "idle"
    /\ wire = File_getitem(<< >>)
    /\ fetched = {}
    /\ result = NoResult

IdleSub ==
    /\ ver = 1
    /\ subEtag = << >>
    /\ shadow = [n \in ChunkIds |-> Hole]
    /\ fetches = [r \in Reqs |-> [n \in ChunkIds |-> NoFetch]]
    /\ req = [r \in Reqs |-> IdleReq]
    /\ called = {}
    /\ dupCall = FALSE

IdleReg ==
    /\ serving = [p \in Publishers |-> {}]
    /\ pending = {}
    /\ bus = [p \in Publishers |-> << >>]
    /\ lastReg = [r \in RootNames |-> NoEndpoint]
    /\ nRegs = 0
    /\ roots = << >>
    /\ rootsAt = [r \in RootNames |-> NoEndpoint]

IdleCap ==
    /\ capOp = "none"
    /\ capReq = PosixPath(FALSE, << >>)
    /\ capRes = Raise("none")

IdleWatch ==
    /\ watchPc = "none"
    /\ watchErr = "none"
    /\ changed = {}
    /\ batches = << >>

IdleDl ==
    /\ dlFile = FileObj(Dataset("file", <<1>>, <<1>>))
    /\ dlOp = "none"
    /\ dlArgs = << >>
    /\ dlPc = "idle"
    /\ dlUrl = << >>
    /\ dlLocal = NoLocal
    /\ dlRes = Raise("none")

IdleCli ==
    /\ cliRoot = NoRoot
    /\ cliFile = NoFile
    /\ cliLog = << >>

IdleH5 ==
    /\ h5Pc = "idle"
    /\ h5Seen = << >>
    /\ c2fs = {}
    /\ c2Before = {}
    /\ h5Log = {}

IdleSvc ==
    /\ svcPc = "idle"
    /\ svcMode = "none"
    /\ svcEnv = {}
    /\ svcKind = "none"
    /\ svcExt = [s \in {"broker", "publisher.foo", "subscriber"} |-> "refused"]
    /\ svcCur = 1
    /\ svcPolls = 0
    /\ svcChild = [s \in {"broker", "publisher.foo", "subscriber"} |-> "none"]
    /\ svcSpawned = << >>
    /\ svcPassed = {}
    /\ svcPre = [s \in {"broker", "publisher.foo", "subscriber"} |-> "none"]
    /\ svcSignals = << >>
    /\ svcSkipped = {}
    /\ svcErr = "none"
    /\ svcStopped = FALSE

IdleMore == IdleCap /\ IdleWatch /\ IdleDl /\ IdleCli /\ IdleH5 /\ IdleSvc

IdleList ==
    /\ registry = [r \in RootNames |-> IF r = PublishedRoot THEN pub_host_default ELSE NoEndpoint]
    /\ subCatalog = [r \in RootNames |-> NotSubscribed]
    /\ firstSub = [r \in RootNames |-> NotSubscribed]
    /\ rootObj = NewRoot
    /\ apiRet = [root |-> "", body |-> ""]

IdleOld == IdlePath /\ IdleEtag /\ IdleList /\ IdleSlice /\ IdleSub /\ IdleReg

(***************************************************************************)
(* SpecPath: calls of exists_dset, get_dset_etag and get_dset_meta with    *)
(* any request path.                                                       *)
(***************************************************************************)
RECURSIVE SeqsUpTo(_, _)
SeqsUpTo(S, n) ==
    IF n = 0 THEN {<< >>}
    ELSE SeqsUpTo(S, n - 1) \cup
         {Append(s, c) : s \in {t \in SeqsUpTo(S, n - 1) : Len(t) = n - 1}, c \in S}

RawPaths == SeqsUpTo(Comps, MaxParts)

PathCall(op, relpath, res) ==
    /\ pathOp' = op
    /\ pathReq' = relpath
    /\ pathRes' = res
    /\ touched' = Accessed(relpath)
    /\ UNCHANGED <<pubVars, outsidePath>>

ExistsDset ==
    \E lead \in BOOLEAN, raw \in RawPaths :
        LET relpath == PosixPath(lead, raw)
        IN  PathCall("exists_dset", relpath, exists_dset(relpath))

GetDsetEtag ==
    \E lead \in BOOLEAN, raw \in RawPaths :
        LET relpath == PosixPath(lead, raw)
        IN  PathCall("get_dset_etag", relpath, get_dset_etag(relpath))

GetDsetMeta ==
    \E lead \in BOOLEAN, raw \in RawPaths :
        LET relpath == PosixPath(lead, raw)
        IN  PathCall("get_dset_meta", relpath, get_dset_meta(relpath))

InitPath == IdlePub /\ IdlePath /\ IdleEtag /\ IdleList /\ IdleSlice /\ IdleSub /\ IdleReg /\ IdleMore
NextPath == ExistsDset \/ GetDsetEtag \/ GetDsetMeta
SpecPath == InitPath /\ [][NextPath]_vars


HasParDir(relpath) == \E i \in DOMAIN relpath.parts : relpath.parts[i] = ParDir
Escapes(relpath) == ~Inside(Normalize(RootAbsPath \o relpath.parts))
Rejectable(relpath) == is_absolute(relpath) \/ HasParDir(relpath) \/ Escapes(relpath)

Dset == PosixPath(FALSE, <<"a">>)

Tick ==
    /\ now < MaxClock
    /\ now' = now + 1
    /\ UNCHANGED <<fs, etagVars, outsideEtag>>

\* open(path, 'wb').write(data): the file holds data, st_mtime is the
\* clock's reading.
WriteFile(tree, name, data) == [tree EXCEPT ![name] = FileNode(data, now)]

WriteDset ==
    \E data \in Contents :
        /\ fs' = WriteFile(fs, "a", data)
        /\ UNCHANGED <<now, etagVars, outsideEtag>>

ReadDsetEtag ==
    /\ etagRead' = [tag |-> "ok", val |-> get_dset_etag(Dset).val,
                    bytes |-> NodeAt(RootAbsPath \o Dset.parts).data]
    /\ etagSeen' \in {etagSeen, etagRead}
    /\ UNCHANGED <<pubVars, outsideEtag>>

InitEtag == IdlePub /\ IdlePath /\ IdleEtag /\ IdleList /\ IdleSlice /\ IdleSub /\ IdleReg /\ IdleMore
NextEtag == Tick \/ WriteDset \/ ReadDsetEtag
SpecEtag == InitEtag /\ [][NextEtag]_vars

\* C2: two reads of the dataset's ETag that return the same ETag reflect the
\* same bytes of the dataset.
C2_SameEtagSameBytes ==
    (etagRead.tag = "ok" /\ etagSeen.tag = "ok" /\ etagRead.val = etagSeen.val)
        => etagRead.bytes = etagSeen.bytes

(***************************************************************************)
(* SpecList: a client constructs Root objects and calls api.subscribe      *)
(* against the subscriber; the published tree is any non-empty tree.       *)
(***************************************************************************)
RECURSIVE Trees(_)
Trees(d) ==
    IF d = 0 THEN {EmptyDir}
    ELSE {tree \in [Names -> {NoNode, FileNode(<< >>, 0)}
                                \cup {DirNode(t) : t \in Trees(d - 1)}] :
             \A n \in Names : tree[n].kind = "dir" => n \in DirNames}

\* The subscriber's handling of a subscribe POST for a root.
Subscribing(url, resp) ==
    IF resp.body = "Ok"
    THEN /\ subCatalog' = [subCatalog EXCEPT ![PostedRoot(url)] = resp.catalog]
         /\ firstSub' = IF firstSub[PostedRoot(url)].subscribed THEN firstSub
                        ELSE [firstSub EXCEPT ![PostedRoot(url)] = resp.catalog]
    ELSE UNCHANGED <<subCatalog, firstSub>>

\* api.subscribe(root)
ApiSubscribe ==
    \E root \in RootNames :
        LET url == SubscribeUrl(sub_host_default, root)
            resp == PostSubscribe(url)
        IN  /\ apiRet' = [root |-> root, body |-> resp.body]
            /\ Subscribing(url, resp)
            /\ UNCHANGED <<registry, rootObj, pubVars, outsideList>>

\* Root.__init__, up to the response to the subscribe POST.
RootInit ==
    /\ rootObj.pc \in {"new", "done", "raised"}
    /\ \E name \in RootNames :
        LET url == SubscribeUrl(sub_host_default, name)
            resp == PostSubscribe(url)
        IN  /\ rootObj' = [NewRoot EXCEPT !.pc = "posted", !.name = name,
                                          !.host = sub_host_default, !.ret = resp.body]
            /\ Subscribing(url, resp)
            /\ UNCHANGED <<registry, apiRet, pubVars, outsideList>>

\* Root.__init__, ret != 'Ok': get_roots and raise ValueError.
RootInitRaise ==
    /\ rootObj.pc = "posted"
    /\ rootObj.ret # "Ok"
    /\ rootObj' = [rootObj EXCEPT !.pc = "raised"]
    /\ UNCHANGED <<registry, subCatalog, firstSub, apiRet, pubVars, outsideList>>

\* Root.__init__, ret == 'Ok': fetch the node list.
RootInitList ==
    /\ rootObj.pc = "posted"
    /\ rootObj.ret = "Ok"
    /\ LET resp == SubGetList(rootObj.name)
       IN  rootObj' = [rootObj EXCEPT !.pc = IF resp.tag = "ok" THEN "done" ELSE "raised",
                                      !.node_list = resp.val]
    /\ UNCHANGED <<registry, subCatalog, firstSub, apiRet, pubVars, outsideList>>

InitList ==
    /\ fs \in Trees(TreeDepth) \ {EmptyDir}
    /\ now = 0
    /\ IdlePath /\ IdleEtag /\ IdleList /\ IdleSlice /\ IdleSub /\ IdleReg /\ IdleMore
NextList == ApiSubscribe \/ RootInit \/ RootInitRaise \/ RootInitList
SpecList == InitList /\ [][NextList]_vars

SeqToSet(seq) == {seq[i] : i \in DOMAIN seq}
NoDuplicates(seq) == \A i, j \in DOMAIN seq : seq[i] = seq[j] => i = j

\* The root-relative paths of the files of the publisher's tree.
FilePaths ==
    {p \in SeqsUpTo(Names, TreeDepth) \ {<< >>} : Lookup(fs, p).kind = "file"}

\* C3: the node list of a constructed Root is the set of root-relative
\* paths of all files under the publisher's directory tree: directories
\* are left out, files of every subdirectory are in.
C3_CatalogComplete ==
    rootObj.pc = "done" => SeqToSet(rootObj.node_list) = FilePaths

\* A Root whose node list holds a top-level file and a file in a
\* subdirectory, of a tree that also has an empty directory.
C3_Witness ==
    /\ rootObj.pc = "done"
    /\ <<"a">> \in SeqToSet(rootObj.node_list)
    /\ \E p \in SeqToSet(rootObj.node_list) : Len(p) > 1
    /\ \E p \in SeqsUpTo(Names, TreeDepth) : Lookup(fs, p) = DirNode(EmptyDir)

Steps == {NoneVal, 1, 2}

\* The items for a dimension of extent e: a valid integer index, or a
\* slice whose bounds may be missing and whose stop may exceed the extent.
Items(e, steps) ==
    {IntItem(i) : i \in 0..(e - 1)}
    \cup {SliceItem(a, b, st) : a \in {NoneVal} \cup 0..e,
                               b \in {NoneVal} \cup 0..(e + Over), st \in steps}

Slices(dset) ==
    {<< >>} \cup {<<it>> : it \in Items(dset.shape[1], Steps)}
    \cup (IF Len(dset.shape) < 2 THEN {}
          ELSE {<<it1, it2>> : it1 \in Items(dset.shape[1], Steps),
                               it2 \in Items(dset.shape[2], {NoneVal})})

\* dir1/dataset-2d.b2nd of the examples, scaled down.
Ds2d == Dataset("b2nd", <<3, 7>>, <<2, 2>>)

Datasets ==
    {Dataset(k, <<e>>, <<c>>) : k \in {"b2nd", "b2frame"}, e \in 1..MaxExtent, c \in 1..MaxExtent}
    \cup {Dataset("file", <<e>>, <<e>>) : e \in 1..MaxExtent}
    \cup {Ds2d}

\* dataset[slice_]
Getitem ==
    /\ slicePc = "idle"
    /\ \E slice_ \in Slices(dataset) :
        /\ slc' = slice_
        /\ wire' = File_getitem(slice_)
        /\ slicePc' = "sent"
        /\ UNCHANGED <<dataset, fetched, result, outsideSlice>>

\* dataset.fetch(slice_, prefer_schunk)
Fetch ==
    /\ slicePc = "idle"
    /\ \E slice_ \in Slices(dataset), prefer_schunk \in BOOLEAN :
        /\ slc' = slice_
        /\ wire' = File_fetch(slice_, prefer_schunk)
        /\ slicePc' = "sent"
        /\ UNCHANGED <<dataset, fetched, result, outsideSlice>>

\* The subscriber serves the request and the client call returns.
SubServe ==
    /\ slicePc = "sent"
    /\ LET resp == SubGetFetch(dataset, wire.slice_, {})
       IN  /\ fetched' = resp.fetched
           /\ result' = fetch_data(resp)
    /\ slicePc' = "done"
    /\ UNCHANGED <<dataset, slc, wire, outsideSlice>>

InitSlice ==
    /\ dataset \in {d \in Datasets : \A k \in DOMAIN d.shape : d.chunks[k] <= d.shape[k]}
    /\ slc = << >>
    /\ slicePc = "idle"
    /\ wire = File_getitem(<< >>)
    /\ fetched = {}
    /\ result = NoResult
    /\ IdlePub /\ IdlePath /\ IdleEtag /\ IdleList /\ IdleSub /\ IdleReg /\ IdleMore
NextSlice == Getitem \/ Fetch \/ SubServe
SpecSlice == InitSlice /\ [][NextSlice]_vars

(***************************************************************************)
(* What indexing the source dataset gives (NumPy and bytes indexing).      *)
(***************************************************************************)
\* The positions an item selects along a dimension of extent e.
Selected(item, e) ==
    IF item.kind = "int" THEN {item.start}
    ELSE {i \in 0..(e - 1) : /\ (item.start = NoneVal \/ i >= item.start)
                             /\ (item.stop = NoneVal \/ i < item.stop)}

ItemAt(slice_, d) == IF d > Len(slice_) THEN SliceItem(NoneVal, NoneVal, NoneVal) ELSE slice_[d]

InSlice(dset, slice_, coord) ==
    \A d \in DOMAIN dset.shape : coord[d] \in Selected(ItemAt(slice_, d), dset.shape[d])

AllCoords(dset) == Box([d \in DOMAIN dset.shape |-> [lo |-> 0, hi |-> dset.shape[d]]], << >>)

\* source[slice_], flattened in row-major order.
SourceElems(dset, slice_) ==
    LET picked == SelectSeq(AllCoords(dset), LAMBDA c : InSlice(dset, slice_, c))
    IN  [k \in DOMAIN picked |-> SourceValue(dset, picked[k])]

\* The shape of source[slice_].
SourceShape(dset, slice_) ==
    LET kept == SelectSeq([d \in DOMAIN dset.shape |-> d],
                          LAMBDA d : ItemAt(slice_, d).kind # "int")
    IN  [k \in DOMAIN kept |->
            Cardinality(Selected(ItemAt(slice_, kept[k]), dset.shape[kept[k]]))]

Supported(slice_) ==
    \A k \in DOMAIN slice_ : slice_[k].kind = "slice" => slice_[k].step \in {NoneVal, 1}

\* C4: for an N-d container, a byte-stream frame or a regular file, and a
\* supported slice (integer index, or range with step absent or 1, its
\* upper bound possibly beyond the extent), the client call returns the
\* elements of the source dataset indexed with the slice, in order; for an
\* N-d container the result also has the shape of that indexing.
C4_SliceEquivalence ==
    (slicePc = "done" /\ Supported(slc)) =>
        /\ result.tag = "ok"
        /\ result.elems = SourceElems(dataset, slc)
        /\ dataset.kind = "b2nd" => result.shape = SourceShape(dataset, slc)

\* The 2-d dataset indexed with [1:3, 2:9]: the range of the second
\* dimension exceeds the extent, and four elements of each of two rows
\* came back.
C4_Witness ==
    /\ slicePc = "done"
    /\ dataset = Ds2d
    /\ slc = <<SliceItem(1, 3, NoneVal), SliceItem(3, 8, NoneVal)>>
    /\ result.tag = "ok"
    /\ result.shape = <<2, 4>>
    /\ Len(result.elems) = 8

\* The chunks that hold an element of source[slice_].
IntersectingChunks(dset, slice_) ==
    LET coords == AllCoords(dset)
    IN  {ChunkOf(dset, coords[k]) : k \in {j \in DOMAIN coords : InSlice(dset, slice_, coords[j])}}

\* [lo_d, hi_d) of a slice along dimension d, hi_d not yet clamped.
LoOf(item) == IF item.start = NoneVal THEN 0 ELSE item.start
HiOf(item, e) ==
    IF item.kind = "int" THEN item.start + 1
    ELSE IF item.stop = NoneVal THEN e ELSE item.stop

\* The Cartesian product over the dimensions d of the chunk ranges
\* [lo_d // chunk_shape[d], ceil(min(hi_d, shape[d]) / chunk_shape[d])),
\* linearized in row-major order over the chunk grid.
CartesianChunks(dset, slice_) ==
    LET grid == ChunkGrid(dset)
        cells == Box([d \in DOMAIN grid |-> [lo |-> 0, hi |-> grid[d]]], << >>)
        InRange(cell, d) ==
            /\ cell[d] >= LoOf(ItemAt(slice_, d)) \div dset.chunks[d]
            /\ cell[d] < CeilDiv(Min(HiOf(ItemAt(slice_, d), dset.shape[d]), dset.shape[d]),
                                 dset.chunks[d])
    IN  {Linear(cells[k], grid) :
            k \in {j \in DOMAIN cells : \A d \in DOMAIN grid : InRange(cells[j], d)}}

\* C5 as claimed: for a step-1 slice the chunks fetched are the Cartesian
\* product of the per-dimension chunk ranges, and they are exactly the
\* chunks the region intersects: none outside it, none missed.
C5_ExactChunkSet ==
    (slicePc = "done" /\ Supported(slc)) =>
        /\ fetched = CartesianChunks(dataset, slc)
        /\ fetched = IntersectingChunks(dataset, slc)

\* C5, amended: for a step-1 slice the chunks fetched are the Cartesian
\* product of the per-dimension chunk ranges; no chunk the region
\* intersects is missed, and when the region holds at least one element no
\* other chunk is fetched.
C5_ChunkSet ==
    (slicePc = "done" /\ Supported(slc)) =>
        /\ fetched = CartesianChunks(dataset, slc)
        /\ IntersectingChunks(dataset, slc) \subseteq fetched
        /\ SourceElems(dataset, slc) # << >> => fetched = IntersectingChunks(dataset, slc)

\* The 2-d dataset (chunk grid 2 x 4) sliced with [1:3, 1:5]: chunks
\* (0,0) (0,1) (0,2) (1,0) (1,1) (1,2) were fetched, linearized as
\* 0, 1, 2, 4, 5, 6.
C5_Witness ==
    /\ slicePc = "done"
    /\ dataset = Ds2d
    /\ slc = <<SliceItem(1, 3, NoneVal), SliceItem(1, 5, NoneVal)>>
    /\ fetched = {0, 1, 2, 4, 5, 6}

\* C8: a slice request with a step other than 1 is rejected with status
\* 400 and the message 'Only step=1 is supported', returns no data and
\* fetches nothing; with every step absent or 1 the request is accepted.
C8_StepRejected ==
    slicePc = "done" =>
        IF Supported(slc)
        THEN result.tag = "ok" /\ result.status = 200
        ELSE /\ result.tag = "Exception"
             /\ result.status = 400
             /\ result.message = StepError
             /\ result.elems = << >>
             /\ fetched = {}

\* ds[::2] on a 1-d container was rejected.
C8_Witness ==
    /\ slicePc = "done"
    /\ dataset.kind = "b2nd"
    /\ slc = <<SliceItem(NoneVal, NoneVal, 2)>>
    /\ result.tag = "Exception"
    /\ result.message = StepError

(***************************************************************************)
(* SpecSub: two clients send slice requests for the dataset "a" to the     *)
(* subscriber while the owner of the root rewrites the file.               *)
(***************************************************************************)
\* The owner rewrites the dataset: same size, new content.
ModifyDset ==
    /\ ver < MaxVer
    /\ ver' = ver + 1
    /\ fs' = WriteFile(fs, "a", VersionData(ver + 1))
    /\ req' = [r \in Reqs |-> [req[r] EXCEPT !.sinceMod = FALSE]]
    /\ UNCHANGED <<now, subEtag, shadow, fetches, called, dupCall, outsideSub>>

\* A slice request arrives; the subscriber re-validates the recorded ETag
\* once, and invalidates the dataset when it differs.
StartRequest ==
    \E r \in Reqs, needs \in (SUBSET ChunkIds) \ {{}} :
        /\ req[r].pc \in {"idle", "done"}
        /\ req' = [req EXCEPT ![r] = [pc |-> "run", needs |-> needs,
                                      sinceMod |-> TRUE, resp |-> << >>]]
        /\ IF subEtag = PubGetEtag
           THEN UNCHANGED <<subEtag, shadow>>
           ELSE subEtag' = PubGetEtag /\ shadow' = Invalidated
        /\ UNCHANGED <<ver, pubVars, fetches, called, dupCall, outsideSub>>

\* A request takes the single-flight token of a chunk it needs and that
\* is not present, and sends GET /api/chunk.
StartFetch ==
    \E r \in Reqs, n \in ChunkIds :
        /\ req[r].pc = "run"
        /\ n \in req[r].needs
        /\ ~shadow[n].present
        /\ fetches[r][n].st = "none"
        /\ TokenFree(n)
        /\ fetches' = [fetches EXCEPT ![r][n] = SentFetch]
        /\ UNCHANGED <<ver, pubVars, subEtag, shadow, req, called, dupCall, outsideSub>>

\* The publisher serves a chunk request.
PubServeChunk ==
    \E r \in Reqs, n \in ChunkIds :
        /\ fetches[r][n].st = "sent"
        /\ fetches' = [fetches EXCEPT ![r][n] = PubGetChunk(n)]
        /\ called' = called \cup {<<n, PubGetEtag>>}
        /\ dupCall' = (dupCall \/ <<n, PubGetEtag>> \in called)
        /\ UNCHANGED <<ver, pubVars, subEtag, shadow, req, outsideSub>>

\* The response arrives: the chunk is written and marked present when its
\* ETag is the recorded one; otherwise the dataset is invalidated and the
\* publisher's current ETag recorded.
ReceiveChunk ==
    \E r \in Reqs, n \in ChunkIds :
        /\ fetches[r][n].st = "resp"
        /\ fetches' = [fetches EXCEPT ![r][n] = NoFetch]
        /\ IF fetches[r][n].etag = subEtag
           THEN /\ shadow' = [shadow EXCEPT ![n] = Chunk(fetches[r][n].bytes, fetches[r][n].etag)]
                /\ UNCHANGED subEtag
           ELSE /\ shadow' = Invalidated
                /\ subEtag' = PubGetEtag
        /\ UNCHANGED <<ver, pubVars, req, called, dupCall, outsideSub>>

\* Every chunk the request needs is present: the response is assembled.
Assemble ==
    \E r \in Reqs :
        /\ req[r].pc = "run"
        /\ \A n \in req[r].needs : shadow[n].present
        /\ req' = [req EXCEPT ![r].pc = "done",
                              ![r].resp = [n \in req[r].needs |-> shadow[n].bytes]]
        /\ UNCHANGED <<ver, pubVars, subEtag, shadow, fetches, called, dupCall, outsideSub>>

SubTick == Tick

InitSub ==
    /\ fs = [ExampleTree EXCEPT !["a"] = FileNode(VersionData(1), 0)]
    /\ now = 0
    /\ ver = 1
    /\ subEtag = EtagString(Stat(FileNode(VersionData(1), 0)))
    /\ shadow = [n \in ChunkIds |-> Hole]
    /\ fetches = [r \in Reqs |-> [n \in ChunkIds |-> NoFetch]]
    /\ req = [r \in Reqs |-> IdleReq]
    /\ called = {}
    /\ dupCall = FALSE
    /\ IdlePath /\ IdleEtag /\ IdleList /\ IdleSlice /\ IdleReg /\ IdleMore
NextSub ==
    \/ SubTick \/ ModifyDset \/ StartRequest \/ StartFetch
    \/ PubServeChunk \/ ReceiveChunk \/ Assemble
SpecSub == InitSub /\ [][NextSub]_vars

SingleFlight ==
    \A n \in ChunkIds : Cardinality({r \in Reqs : fetches[r][n].st # "none"}) <= 1

ServedNeeds ==
    \A r \in Reqs : req[r].pc = "done" =>
        \A n \in req[r].needs : \E pair \in called : pair[1] = n

EtagNeverChanged == PubGetEtag = EtagString(Stat(FileNode(VersionData(1), 0)))

C7_EtagCoherence ==
    /\ \A n \in ChunkIds : shadow[n].present => shadow[n].etag = subEtag
    /\ \A r \in Reqs : req[r].pc = "done" =>
           /\ req[r].sinceMod => \A n \in req[r].needs : req[r].resp[n] = ver
           /\ \A m, n \in req[r].needs : req[r].resp[m] = req[r].resp[n]

(***************************************************************************)
(* SpecReg: publishers start serving roots and register them with the      *)
(* broker; the broker handles the registrations one at a time, in any      *)
(* order; a client asks for the roots.                                     *)
(***************************************************************************)
\* A publisher starts serving a root and sends its registration.
SendRegister ==
    \E p \in Publishers, r \in RootNames :
        /\ nRegs + Cardinality(pending) < MaxRegs
        /\ <<p, r>> \notin pending
        /\ pending' = pending \cup {<<p, r>>}
        /\ serving' = [serving EXCEPT ![p] = @ \cup {r}]
        /\ UNCHANGED <<registry, bus, lastReg, nRegs, roots, rootsAt, outsideReg>>

\* The broker handles a registration: it records the mapping and signals
\* the displaced publisher.
BrokerRegister ==
    \E reg \in pending :
        LET p == reg[1]
            r == reg[2]
            done == Register(registry, r, p)
        IN  /\ pending' = pending \ {reg}
            /\ registry' = done.registry
            /\ bus' = Evict(bus, done.prior, r, p)
            /\ lastReg' = [lastReg EXCEPT ![r] = p]
            /\ nRegs' = nRegs + 1
            /\ UNCHANGED <<serving, roots, rootsAt, outsideReg>>

\* A publisher reads an eviction signal from its bus channel and stops
\* serving the root.
HandleEviction ==
    \E p \in Publishers :
        /\ bus[p] # << >>
        /\ bus' = [bus EXCEPT ![p] = Tail(@)]
        /\ serving' = [serving EXCEPT ![p] = @ \ {Head(bus[p]).root}]
        /\ UNCHANGED <<registry, pending, lastReg, nRegs, roots, rootsAt, outsideReg>>

\* test_roots: roots = cat2.get_roots().
GetRoots ==
    /\ roots' = get_roots
    /\ rootsAt' = lastReg
    /\ UNCHANGED <<registry, serving, pending, bus, lastReg, nRegs, outsideReg>>

InitReg ==
    /\ registry = [r \in RootNames |-> NoEndpoint]
    /\ subCatalog = [r \in RootNames |-> NotSubscribed]
    /\ firstSub = [r \in RootNames |-> NotSubscribed]
    /\ rootObj = NewRoot
    /\ apiRet = [root |-> "", body |-> ""]
    /\ IdleReg /\ IdleMore
    /\ IdlePub /\ IdlePath /\ IdleEtag /\ IdleSlice /\ IdleSub
NextReg == SendRegister \/ BrokerRegister \/ HandleEviction \/ GetRoots
SpecReg == InitReg /\ [][NextReg]_vars

\* The eviction signals for a root waiting on the bus channel of a publisher.
EvictionPending(p, r) == \E i \in 1..Len(bus[p]) : bus[p][i] = Eviction(r)

\* C10: each root is bound to the endpoint of the last registration the
\* broker handled for it, or to none before the first; a displaced
\* publisher that still serves the root, and has not registered it again,
\* has the eviction signal on its bus channel, which makes it stop;
\* get_roots() reported every root bound at the time with its name and the
\* endpoint bound to it.
C10_BrokerRegistry ==
    /\ \A r \in RootNames : registry[r] = lastReg[r]
    /\ \A p \in Publishers, r \in RootNames :
           (r \in serving[p] /\ registry[r] # p /\ <<p, r>> \notin pending)
               => EvictionPending(p, r)
    /\ DOMAIN roots = {r \in RootNames : rootsAt[r] # NoEndpoint}
    /\ \A r \in DOMAIN roots : roots[r] = [name |-> r, http |-> rootsAt[r]]

\* Two publishers registered the same root; the displaced one, the
\* default publisher, has read its eviction signal and stopped serving,
\* and get_roots() has reported the root bound to the other.
C10_Witness ==
    /\ registry[PublishedRoot] = "localhost:8011"
    /\ PublishedRoot \notin serving[pub_host_default]
    /\ PublishedRoot \in serving["localhost:8011"]
    /\ bus[pub_host_default] = << >>
    /\ nRegs >= 2
    /\ PublishedRoot \in DOMAIN roots
    /\ roots[PublishedRoot].http = "localhost:8011"

(***************************************************************************)
(* SpecCap: every operation PubRoot declares is called on a DirectoryRoot. *)
(***************************************************************************)
CapCall(name, relpath) ==
    /\ capOp' = name
    /\ capReq' = relpath
    /\ capRes' = CallMethod(name, relpath)
    /\ UNCHANGED <<pubVars, outsideCap>>

CallWalkDsets == CapCall("walk_dsets", PosixPath(FALSE, << >>))
CallExistsDset ==
    \E lead \in BOOLEAN, raw \in RawPaths : CapCall("exists_dset", PosixPath(lead, raw))
CallGetDsetEtag ==
    \E lead \in BOOLEAN, raw \in RawPaths : CapCall("get_dset_etag", PosixPath(lead, raw))
CallGetDsetMeta ==
    \E lead \in BOOLEAN, raw \in RawPaths : CapCall("get_dset_meta", PosixPath(lead, raw))
CallGetDsetChunk ==
    \E lead \in BOOLEAN, raw \in RawPaths : CapCall("get_dset_chunk", PosixPath(lead, raw))
CallAwatchDsets == CapCall("awatch_dsets", PosixPath(FALSE, << >>))

InitCap == IdlePub /\ IdleOld /\ IdleMore
NextCap ==
    \/ CallWalkDsets \/ CallExistsDset \/ CallGetDsetEtag
    \/ CallGetDsetMeta \/ CallGetDsetChunk \/ CallAwatchDsets
SpecCap == InitCap /\ [][NextCap]_vars

\* C11: every operation of the capability set that PubRoot declares can be
\* called on a DirectoryRoot: the call finds the method.
C11_CapabilitySet ==
    capOp \in PubRootMethods => capRes.tag # AttributeError

(***************************************************************************)
(* SpecWatch: files under the root change while a consumer iterates        *)
(* DirectoryRoot.awatch_dsets().                                           *)
(***************************************************************************)
\* A file directly under the root is written.
ChangeFile ==
    \E name \in Names \ DirNames, data \in Contents :
        /\ fs' = WriteFile(fs, name, data)
        /\ changed' = changed \cup {RootAbsPath \o <<name>>}
        /\ UNCHANGED <<now, watchPc, watchErr, batches, outsideWatch>>

WatchTick ==
    /\ now < MaxClock
    /\ now' = now + 1
    /\ UNCHANGED <<fs, watchVars, outsideWatch>>

\* proot.awatch_dsets(): the async generator is created.
AwatchDsets ==
    /\ watchPc = "none"
    /\ watchPc' = "created"
    /\ UNCHANGED <<pubVars, watchErr, changed, batches, outsideWatch>>

\* The consumer awaits the next batch: the body runs up to the yield.
AwatchNext ==
    /\ watchPc = "created"
    /\ changed # {}
    /\ IF NameLookup("proot").tag = "ok"
       THEN /\ batches' = Append(batches, Relpaths(changed))
            /\ changed' = {}
            /\ UNCHANGED <<watchPc, watchErr>>
       ELSE /\ watchPc' = "raised"
            /\ watchErr' = NameLookup("proot").tag
            /\ UNCHANGED <<changed, batches>>
    /\ UNCHANGED <<pubVars, outsideWatch>>

InitWatch == IdlePub /\ IdleOld /\ IdleMore
NextWatch == ChangeFile \/ WatchTick \/ AwatchDsets \/ AwatchNext
SpecWatch == InitWatch /\ [][NextWatch]_vars

\* C12: the change stream does not end with an error while it is consumed;
\* after the consumer has taken a batch no earlier change is left out of
\* it, and every path of a batch is the path, relative to the root, of a
\* file under the root.
C12_ChangeStream ==
    /\ watchPc # "raised"
    /\ \A i \in DOMAIN batches : \A p \in batches[i] :
           NodeAt(RootAbsPath \o p).kind = "file"

(***************************************************************************)
(* SpecDownload: a client calls download(), get_download_url() and the     *)
(* full fetch on a File or Dataset, with and without a slice argument.     *)
(* The subscriber has nothing cached; the source does not change.          *)
(***************************************************************************)
\* The positional arguments of a call: none, or one slice of one item.
CallArgs(dset) == {<< >>} \cup {<<(<<it>>)>> : it \in Items(dset.shape[1], {NoneVal})}

\* file = root[name]
OpenFile ==
    /\ dlOp = "none"
    /\ \E d \in Datasets :
        /\ \A k \in DOMAIN d.shape : d.chunks[k] <= d.shape[k]
        /\ dlFile' = FileObj(d)
    /\ dlOp' = "open"
    /\ UNCHANGED <<dlArgs, dlPc, dlUrl, dlLocal, dlRes, pubVars, outsideDl>>

\* ds.download(...)
Download ==
    /\ dlOp # "none"
    /\ dlPc \in {"idle", "done"}
    /\ \E args \in CallArgs(dlFile.dset) :
        LET call == File_download(dlFile, args)
        IN  /\ dlOp' = "download"
            /\ dlArgs' = args
            /\ IF call.tag = "ok"
               THEN dlPc' = "sent" /\ dlUrl' = call /\ UNCHANGED dlRes
               ELSE dlPc' = "done" /\ dlRes' = Raise(call.tag) /\ UNCHANGED dlUrl
            /\ UNCHANGED <<dlFile, dlLocal, pubVars, outsideDl>>

\* ds.get_download_url(...)
GetDownloadUrl ==
    /\ dlOp # "none"
    /\ dlPc \in {"idle", "done"}
    /\ \E args \in CallArgs(dlFile.dset) :
        /\ dlOp' = "get_download_url"
        /\ dlArgs' = args
        /\ dlRes' = File_get_download_url(dlFile, args)
        /\ dlPc' = "done"
        /\ UNCHANGED <<dlFile, dlUrl, dlLocal, pubVars, outsideDl>>

\* ds.fetch(prefer_schunk=True): the full slice.
FetchAll ==
    /\ dlOp # "none"
    /\ dlPc \in {"idle", "done"}
    /\ dlOp' = "fetch"
    /\ dlArgs' = << >>
    /\ dlUrl' = File_fetch(<< >>, TRUE)
    /\ dlPc' = "sent"
    /\ UNCHANGED <<dlFile, dlLocal, dlRes, pubVars, outsideDl>>

\* The subscriber serves GET /files/...; download_url writes the file.
SubServeFile ==
    /\ dlPc = "sent"
    /\ dlOp = "download"
    /\ dlLocal' = download_url(SubGetFile(dlFile.dset, {}), dlUrl.localpath)
    /\ dlRes' = Ok(dlUrl.localpath)
    /\ dlPc' = "done"
    /\ UNCHANGED <<dlFile, dlOp, dlArgs, dlUrl, pubVars, outsideDl>>

\* The subscriber serves GET /api/fetch/...; the data is deserialized.
SubServeFetch ==
    /\ dlPc = "sent"
    /\ dlOp = "fetch"
    /\ LET data == fetch_data(SubGetFetch(dlFile.dset, dlUrl.slice_, {}))
       IN  dlRes' = [tag |-> data.tag, val |-> data.elems]
    /\ dlPc' = "done"
    /\ UNCHANGED <<dlFile, dlOp, dlArgs, dlUrl, dlLocal, pubVars, outsideDl>>

InitDownload == IdlePub /\ IdleOld /\ IdleMore
NextDownload == OpenFile \/ Download \/ GetDownloadUrl \/ FetchAll \/ SubServeFile \/ SubServeFetch
SpecDownload == InitDownload /\ [][NextDownload]_vars

\* my_path(dspath, slice_) of the tests: '[S]' between stem and extension.
my_path(dspath, slice_) ==
    IF slice_to_string(slice_) # << >>
    THEN [dspath EXCEPT !.slice = slice_to_string(slice_)]
    ELSE dspath

\* my_urlpath(ds, slice_) of the tests.
my_urlpath(file, slice_) ==
    IF slice_to_string(slice_) # << >> \/ file.path.suffix \notin {".b2frame", ".b2nd"}
    THEN [host |-> sub_host_default, prefix |-> <<"files", "downloads">>,
          path |-> my_path(file.path, slice_)]
    ELSE [host |-> sub_host_default, prefix |-> <<"files">>, path |-> file.path]

\* C13: download(S) returns the dataset's path with '[S]' between stem and
\* extension and leaves there a container that holds the source restricted
\* to S; get_download_url(S) returns the matching URL under
\* /files/downloads.
C13_SlicedDownload ==
    (dlPc = "done" /\ Len(dlArgs) = 1) =>
        /\ dlRes.tag = "ok"
        /\ dlOp = "download" =>
               /\ dlRes.val = my_path(dlFile.path, dlArgs[1])
               /\ dlLocal.path = dlRes.val
               /\ OpenAll(dlLocal.content) = SourceElems(dlFile.dset, dlArgs[1])
        /\ dlOp = "get_download_url" => dlRes.val = my_urlpath(dlFile, dlArgs[1])

RootNew ==
    /\ cliRoot.pc \in {"new", "done", "raised"}
    /\ \E name \in RootNames, user_auth \in UserAuths :
        LET self == [NoRoot EXCEPT !.name = name, !.host = sub_host_default,
                                   !.auth_cookie = RootAuthCookie(sub_host_default, user_auth)]
            resp == PostSubscribe(SubscribeUrl(self.host, self.name))
        IN  /\ cliRoot' = [self EXCEPT !.pc = "posted", !.ret = resp.body]
            /\ cliLog' = <<SubscribeRequest(self)>>
            /\ cliFile' = NoFile
            /\ Subscribing(SubscribeUrl(self.host, self.name), resp)
            /\ UNCHANGED <<pubVars, outsideCliSub>>

\* Root.__init__, ret != 'Ok': roots = get_roots(host); raise ValueError.
RootRaise ==
    /\ cliRoot.pc = "posted"
    /\ SubscribeFailed(cliRoot.ret)
    /\ cliLog' = Append(cliLog, RootsRequest(cliRoot))
    /\ cliRoot' = [cliRoot EXCEPT !.pc = "raised", !.error = ValueError,
                                  !.available = DOMAIN get_roots]
    /\ UNCHANGED <<cliFile, pubVars, outsideCli>>

\* Root.__init__, otherwise: self.node_list = api_utils.get(.../api/list/...).
RootList ==
    /\ cliRoot.pc = "posted"
    /\ ~SubscribeFailed(cliRoot.ret)
    /\ cliLog' = Append(cliLog, ListRequest(cliRoot))
    /\ LET resp == SubGetList(cliRoot.name)
       IN  cliRoot' = IF resp.tag = "ok"
                      THEN [cliRoot EXCEPT !.pc = "done", !.has_node_list = TRUE,
                                           !.node_list = resp.val]
                      ELSE [cliRoot EXCEPT !.pc = "raised", !.error = resp.tag]
    /\ UNCHANGED <<cliFile, pubVars, outsideCli>>

\* Root.__getitem__ and File.__init__: the File gets the Root's cookie and
\* requests its metadata.
RootGetitem ==
    /\ cliRoot.pc = "done"
    /\ cliFile.pc = "none"
    /\ \E i \in DOMAIN cliRoot.node_list :
        LET self == [pc |-> "open", root |-> cliRoot.name, name |-> cliRoot.node_list[i],
                     host |-> cliRoot.host, auth_cookie |-> cliRoot.auth_cookie]
        IN  /\ cliFile' = self
            /\ cliLog' = Append(cliLog, InfoRequest(self))
    /\ UNCHANGED <<cliRoot, pubVars, outsideCli>>

\* File.fetch / File.__getitem__
FileFetch ==
    /\ cliFile.pc = "open"
    /\ Len(cliLog) < MaxRequests
    /\ cliLog' = Append(cliLog, FetchRequest(cliFile))
    /\ UNCHANGED <<cliRoot, cliFile, pubVars, outsideCli>>

\* File.get_download_url
FileGetDownloadUrl ==
    /\ cliFile.pc = "open"
    /\ Len(cliLog) < MaxRequests
    /\ cliLog' = Append(cliLog, DownloadUrlRequest(cliFile))
    /\ UNCHANGED <<cliRoot, cliFile, pubVars, outsideCli>>

\* File.download: get_download_url, then download_url.
FileDownload ==
    /\ cliFile.pc = "open"
    /\ Len(cliLog) + 1 < MaxRequests
    /\ cliLog' = cliLog \o <<DownloadUrlRequest(cliFile), DownloadRequest(cliFile)>>
    /\ UNCHANGED <<cliRoot, cliFile, pubVars, outsideCli>>

InitClient ==
    /\ fs \in Trees(TreeDepth) \ {EmptyDir}
    /\ now = 0
    /\ IdleOld /\ IdleMore
NextClient ==
    \/ RootNew \/ RootRaise \/ RootList \/ RootGetitem
    \/ FileFetch \/ FileGetDownloadUrl \/ FileDownload
SpecClient == InitClient /\ [][NextClient]_vars

\* The requests of an operation in the log.
Requests(op) == {i \in DOMAIN cliLog : cliLog[i].op = op}

C20_CookieForwarded ==
    \A i \in DOMAIN cliLog : cliLog[i].auth_cookie = cliRoot.auth_cookie

(***************************************************************************)
(* tools/hdf5_to_cat2.py: export of the datasets of an HDF5 file to a new  *)
(* Caterva2 root.                                                          *)
(***************************************************************************)
\* The link names of the HDF5 file, in the order of the name index, and the
\* path names of its nodes: members of the file and of its groups.
H5Comps == <<ParDir, "d", "d.b2nd">>
H5Names == {n \in SeqsUpTo({H5Comps[i] : i \in 1..Len(H5Comps)}, 2) : n # << >>}

CompIndex(comp) == CHOOSE i \in 1..Len(H5Comps) : H5Comps[i] = comp

\* visititems: a group is visited before its members, the members of a
\* group in increasing order of their names.
RECURSIVE VisitedBefore(_, _)
VisitedBefore(n, m) ==
    IF n = << >> THEN m # << >>
    ELSE IF m = << >> THEN FALSE
    ELSE IF n[1] # m[1] THEN CompIndex(n[1]) < CompIndex(m[1])
    ELSE VisitedBefore(Tail(n), Tail(m))

\* The attributes of a node and what happens to each: "absent", "ok",
\* "read" (h5py cannot read its value: raised by the iteration of
\* node.attrs.items()), "pack" (msgpack cannot serialize its value).
AttrNames == <<"a", "b">>
AttrModes == {"absent", "ok", "read", "pack"}
AttrSets == [1..Len(AttrNames) -> AttrModes]
NoAttrs == [i \in 1..Len(AttrNames) |-> "absent"]

\* The nodes: groups, datasets and committed datatypes.  fail says where
\* the conversion of a dataset raises: "none", "empty" (blosc2.empty, no
\* file yet) or "chunks" (after the file was created).  Attributes are
\* read of datasets whose chunks were copied, and counted of groups.
H5Node(name, kind, fail, attrs) ==
    [name |-> name, kind |-> kind, fail |-> fail, attrs |-> attrs]
H5Nodes ==
    {H5Node(n, "dataset", "none", a) : n \in H5Names, a \in AttrSets}
    \cup {H5Node(n, "dataset", f, NoAttrs) : n \in H5Names, f \in {"empty", "chunks"}}
    \cup {H5Node(n, "group", "none", a) : n \in H5Names, a \in {NoAttrs, [NoAttrs EXCEPT ![1] = "ok"]}}
    \cup {H5Node(n, "datatype", "none", NoAttrs) : n \in H5Names}

\* The Caterva2 root and the entries of the file system.
C2Root == <<"c2root">>
Entry(path, kind, full, vlmeta) ==
    [path |-> path, kind |-> kind, full |-> full, vlmeta |-> vlmeta]
DirEntry(path) == Entry(path, "dir", FALSE, {})
IsDir(entries, path) == \E e \in entries : e.path = path /\ e.kind = "dir"
IsFile(entries, path) == \E e \in entries : e.path = path /\ e.kind = "file"
Exists(entries, path) == \E e \in entries : e.path = path
Parent(path) == SubSeq(path, 1, Len(path) - 1)

Record(level, what, name, aname) ==
    [level |-> level, what |-> what, name |-> name, aname |-> aname]

\* What a step leaves: the file system, the log, and whether it raised.
Outcome(entries, log, raised) == [fs |-> entries, log |-> log, raised |-> raised]

\* path.mkdir(): the parent must be a directory and the path must not exist.
MkdirFails(entries, path) == Exists(entries, path) \/ ~IsDir(entries, Parent(path))

create_directory(name, node, entries, log) ==
    LET warned == IF \E i \in DOMAIN node.attrs : node.attrs[i] # "absent"
                  THEN log \cup {Record("warning", "group attributes", name, "")}
                  ELSE log
        path == C2Root \o name
    IN  IF MkdirFails(entries, path)
        THEN Outcome(entries, warned \cup {Record("error", "group", name, "")}, FALSE)
        ELSE Outcome(entries \cup {DirEntry(path)},
                     warned \cup {Record("info", "group", name, "")}, FALSE)

\* c2_root / f'{name}.b2nd'
B2Path(name) == C2Root \o Parent(name) \o <<name[Len(name)] \o ".b2nd">>

\* blosc2.empty(urlpath=b2_path, mode='w') creates the file, where it can.
EmptyFails(node, entries) ==
    \/ node.fail = "empty"
    \/ ~IsDir(entries, Parent(B2Path(node.name)))
    \/ IsDir(entries, B2Path(node.name))

\* b2_path.unlink(missing_ok=True): a missing file is ignored; a path
\* through a regular file (ENOTDIR) or to a directory raises.
UnlinkRaises(entries, path) ==
    \/ IsDir(entries, path)
    \/ \E k \in 1..(Len(path) - 1) : IsFile(entries, SubSeq(path, 1, k))
Unlink(entries, path) == {e \in entries : e.path # path}

\* The loop over node.attrs.items(): the attributes set as vlmeta, the
\* records logged, and whether the iteration itself raised.
RECURSIVE AttrLoop(_, _, _, _)
AttrLoop(node, i, done, log) ==
    IF i > Len(AttrNames) THEN [vlmeta |-> done, log |-> log, raised |-> FALSE]
    ELSE LET mode == node.attrs[i]
             aname == AttrNames[i]
         IN  IF mode = "absent" THEN AttrLoop(node, i + 1, done, log)
             ELSE IF mode = "read" THEN [vlmeta |-> done, log |-> log, raised |-> TRUE]
             ELSE IF mode = "pack"
             THEN AttrLoop(node, i + 1, done,
                           log \cup {Record("error", "attribute", node.name, aname)})
             ELSE AttrLoop(node, i + 1, done \cup {aname},
                           log \cup {Record("info", "attribute", node.name, aname)})

copy_dataset(name, node, entries, log) ==
    LET b2_path == B2Path(name)
        created == Unlink(entries, b2_path) \cup {Entry(b2_path, "file", FALSE, {})}
        attrs == AttrLoop(node, 1, {}, log)
        \* the handler of the outer try
        failed(es, lg) ==
            IF UnlinkRaises(es, b2_path) THEN Outcome(es, lg, TRUE)
            ELSE Outcome(Unlink(es, b2_path),
                         lg \cup {Record("error", "dataset", name, "")}, FALSE)
    IN  IF EmptyFails(node, entries) THEN failed(entries, log)
        ELSE IF node.fail = "chunks" THEN failed(created, log)
        ELSE IF attrs.raised THEN failed(created, attrs.log)
        ELSE Outcome(Unlink(entries, b2_path) \cup {Entry(b2_path, "file", TRUE, attrs.vlmeta)},
                     attrs.log \cup {Record("info", "dataset", name, "")}, FALSE)

InvalidNameNever(name) == FALSE
InvalidName(name) == \E i \in 1..Len(name) : name[i] \in {CurDir, ParDir}

export_node(name, node, entries, log) ==
    IF InvalidName(name)
    THEN Outcome(entries, log \cup {Record("warning", "node name", name, "")}, FALSE)
    ELSE IF node.kind = "group" THEN create_directory(name, node, entries, log)
    ELSE IF node.kind = "dataset" THEN copy_dataset(name, node, entries, log)
    ELSE Outcome(entries, log \cup {Record("warning", "node type", name, "")}, FALSE)

(***************************************************************************)
(* SpecExport: export() of any HDF5 file of at most MaxNodes nodes.        *)
(***************************************************************************)
\* What export() can find at cat2_path: nothing, a directory (with a
\* dataset of an earlier export or without), or a regular file.
Targets ==
    { {},
      {DirEntry(C2Root)},
      {DirEntry(C2Root), Entry(C2Root \o <<"d.b2nd">>, "file", TRUE, {})},
      {Entry(C2Root, "file", TRUE, {})} }

\* c2r.mkdir(parents=True): the path itself must not exist.
MkdirParentsFails(entries, path) == Exists(entries, path)

\* export(): the root is created anew, or the program stops there.
Export ==
    /\ h5Pc = "idle"
    /\ \E before \in Targets :
         /\ c2Before' = before
         /\ IF MkdirParentsFails(before, C2Root)
            THEN /\ h5Pc' = "refused"
                 /\ c2fs' = before
            ELSE /\ h5Pc' = "visiting"
                 /\ c2fs' = before \cup {DirEntry(C2Root)}
    /\ UNCHANGED <<h5Seen, h5Log, pubVars, outsideH5>>

\* The next node of the file, in the order of visititems.
NextNodes ==
    {node \in H5Nodes :
        /\ h5Seen # << >> => VisitedBefore(h5Seen[Len(h5Seen)].name, node.name)
        /\ Len(node.name) > 1 =>
             \E i \in 1..Len(h5Seen) : /\ h5Seen[i].name = Parent(node.name)
                                       /\ h5Seen[i].kind = "group"}

ExportNode ==
    /\ h5Pc = "visiting"
    /\ Len(h5Seen) < MaxNodes
    /\ \E node \in NextNodes :
         LET out == export_node(node.name, node, c2fs, h5Log)
         IN  /\ h5Seen' = Append(h5Seen, node)
             /\ c2fs' = out.fs
             /\ h5Log' = out.log
             /\ h5Pc' = IF out.raised THEN "raised" ELSE "visiting"
    /\ UNCHANGED <<c2Before, pubVars, outsideH5>>

\* visititems has visited every node: export() returns.
ExportDone ==
    /\ h5Pc = "visiting"
    /\ h5Pc' = "done"
    /\ UNCHANGED <<h5Seen, c2fs, c2Before, h5Log, pubVars, outsideH5>>

InitExport == IdlePub /\ IdleOld /\ IdleMore
NextExport == Export \/ ExportNode \/ ExportDone
SpecExport == InitExport /\ [][NextExport]_vars

\* A dataset that the export could not convert: its conversion raises, or
\* its file cannot be created where its group was not exported.
Reported(level, what, name, aname) == Record(level, what, name, aname) \in h5Log
Convertible(i) ==
    /\ h5Seen[i].kind = "dataset"
    /\ ~InvalidName(h5Seen[i].name)
    /\ h5Seen[i].fail = "none"
    /\ \A k \in 1..(Len(h5Seen[i].name) - 1) :
         \E j \in 1..(i - 1) : /\ h5Seen[j].name = SubSeq(h5Seen[i].name, 1, k)
                               /\ Reported("info", "group", h5Seen[j].name, "")
Unconvertible(i) ==
    /\ h5Seen[i].kind = "dataset"
    /\ ~InvalidName(h5Seen[i].name)
    /\ ~Convertible(i)

\* C16: a dataset or attribute that fails to convert is reported and
\* skipped and the program does not fail; a dataset that failed leaves no
\* '.b2nd' file, every other dataset is exported with all its chunks, and a
\* failing attribute leaves its dataset and the other attributes exported.
C16_ReportedAndSkipped ==
    /\ h5Pc # "raised"
    /\ \A i \in 1..Len(h5Seen) :
         LET node == h5Seen[i]
         IN  /\ Unconvertible(i) =>
                  /\ ~IsFile(c2fs, B2Path(node.name))
                  /\ Reported("error", "dataset", node.name, "")
             /\ Convertible(i) =>
                  /\ Entry(B2Path(node.name), "file", TRUE,
                           {AttrNames[k] : k \in {j \in DOMAIN node.attrs : node.attrs[j] = "ok"}})
                       \in c2fs
                  /\ \A k \in DOMAIN node.attrs :
                       node.attrs[k] \in {"read", "pack"} =>
                         Reported("error", "attribute", node.name, AttrNames[k])

(***************************************************************************)
(* tests/services.py: the services that tests need, as children of the     *)
(* harness (ManagedServices) or checked only (ExternalServices).           *)
(***************************************************************************)
TEST_DEFAULT_ROOT == "foo"
\* The services in the order of start_all, with roots = [root].
ServiceNames == <<"broker", "publisher." \o TEST_DEFAULT_ROOT, "subscriber">>
ServiceSet == {ServiceNames[i] : i \in 1..Len(ServiceNames)}

\* The environment variables that tell of external services.
EnvVars == {"USE_EXTERNAL_SERVICES", "CATERVA2_USE_EXTERNAL"}
\* os.environ.get('CATERVA2_USE_EXTERNAL', '0') == '1'
UseExternal(env) == "CATERVA2_USE_EXTERNAL" \in env

\* What httpx.get meets at an endpoint where no child answers: a refused
\* connection, a 200 response, or no response within the timeout.
ExtStates == {"refused", "ok", "timeout"}

\* make_get_http(host).check(): True on a 200 response, False on
\* ConnectError; any other exception of httpx.get leaves the check.
make_get_http(name, child, ext) ==
    IF child[name] = "up" \/ ext[name] = "ok" THEN "true"
    ELSE IF ext[name] = "timeout" THEN "raise"
    ELSE "false"

start_timeout_secs == 10
start_sleep_secs == 1
PollsUnbounded == 2 * start_timeout_secs
PollLimit == start_timeout_secs \div start_sleep_secs

Signal(name, sig) == [name |-> name, sig |-> sig]

(***************************************************************************)
(* SpecServices: main() and the services fixture, with any services        *)
(* running outside the harness and children that come up and exit on      *)
(* their own.                                                              *)
(***************************************************************************)
\* An exception leaves the try block, or the block ends: finally.
ToStopAll(err) ==
    /\ svcPc' = "stop_all"
    /\ svcCur' = 1
    /\ svcErr' = err
    /\ svcStopped' = TRUE

\* The fixture is requested by a test.
services ==
    /\ svcPc = "idle"
    /\ \E env \in SUBSET EnvVars, ext \in [ServiceSet -> ExtStates] :
         /\ svcMode' = "fixture"
         /\ svcEnv' = env
         /\ svcExt' = ext
         /\ svcKind' = IF UseExternal(env) THEN "ExternalServices" ELSE "ManagedServices"
    /\ svcPc' = "start_all"
    /\ svcCur' = 1
    /\ UNCHANGED <<svcPolls, svcChild, svcSpawned, svcPassed, svcPre, svcSignals,
                   svcSkipped, svcErr, svcStopped, pubVars, outsideSvc>>

\* The script is run, with --help or not.
main ==
    /\ svcPc = "idle"
    /\ \E env \in SUBSET EnvVars, ext \in [ServiceSet -> ExtStates], help \in BOOLEAN :
         /\ svcMode' = "main"
         /\ svcEnv' = env
         /\ svcExt' = ext
         /\ svcKind' = IF help THEN "none" ELSE "ManagedServices"
         /\ svcPc' = IF help THEN "done" ELSE "start_all"
    /\ svcCur' = 1
    /\ UNCHANGED <<svcPolls, svcChild, svcSpawned, svcPassed, svcPre, svcSignals,
                   svcSkipped, svcErr, svcStopped, pubVars, outsideSvc>>

\* ExternalServices.start_all: every check is called, in order.
ExternalCheck ==
    /\ svcPc = "start_all"
    /\ svcKind = "ExternalServices"
    /\ svcCur <= Len(ServiceNames)
    /\ LET name == ServiceNames[svcCur]
           res == make_get_http(name, svcChild, svcExt)
       IN  /\ svcPre' = [svcPre EXCEPT ![name] = res]
           /\ IF res = "raise"
              THEN /\ ToStopAll("TimeoutException")
              ELSE /\ svcCur' = svcCur + 1
                   /\ UNCHANGED <<svcPc, svcErr, svcStopped>>
    /\ UNCHANGED <<svcMode, svcEnv, svcKind, svcExt, svcPolls, svcChild, svcSpawned,
                   svcPassed, svcSignals, svcSkipped, pubVars, outsideSvc>>

ExternalStarted ==
    /\ svcPc = "start_all"
    /\ svcKind = "ExternalServices"
    /\ svcCur > Len(ServiceNames)
    /\ IF \E s \in ServiceSet : svcPre[s] = "false"
       THEN ToStopAll("RuntimeError")
       ELSE /\ svcPc' = "yield"
            /\ UNCHANGED <<svcCur, svcErr, svcStopped>>
    /\ UNCHANGED <<svcMode, svcEnv, svcKind, svcExt, svcPolls, svcChild, svcSpawned,
                   svcPassed, svcPre, svcSignals, svcSkipped, pubVars, outsideSvc>>

\* ManagedServices._setup: the state directory is made ready, or not.
Setup ==
    /\ svcPc = "start_all"
    /\ svcKind = "ManagedServices"
    /\ \E ok \in BOOLEAN :
         IF ok
         THEN /\ svcPc' = "_start_proc"
              /\ UNCHANGED <<svcCur, svcErr, svcStopped>>
         ELSE ToStopAll("OSError")
    /\ UNCHANGED <<svcMode, svcEnv, svcKind, svcExt, svcPolls, svcChild, svcSpawned,
                   svcPassed, svcPre, svcSignals, svcSkipped, pubVars, outsideSvc>>

\* _start_proc up to its first sleep: the check before the start, Popen.
CheckedBeforeStart(res) == res = "true"
StartProc ==
    /\ svcPc = "_start_proc"
    /\ LET name == ServiceNames[svcCur]
           res == make_get_http(name, svcChild, svcExt)
       IN  /\ svcPre' = [svcPre EXCEPT ![name] = res]
           /\ IF res = "raise"
              THEN /\ ToStopAll("TimeoutException")
                   /\ UNCHANGED <<svcChild, svcSpawned, svcPolls>>
              ELSE IF CheckedBeforeStart(res)
              THEN /\ ToStopAll("RuntimeError")
                   /\ UNCHANGED <<svcChild, svcSpawned, svcPolls>>
              ELSE /\ svcChild' = [svcChild EXCEPT ![name] = "starting"]
                   /\ svcSpawned' = Append(svcSpawned, name)
                   /\ svcPolls' = 0
                   /\ svcPc' = "poll"
                   /\ UNCHANGED <<svcCur, svcErr, svcStopped>>
    /\ UNCHANGED <<svcMode, svcEnv, svcKind, svcExt, svcPassed, svcSignals,
                   svcSkipped, pubVars, outsideSvc>>

\* One round of the start loop: sleep, check.
Poll ==
    /\ svcPc = "poll"
    /\ LET name == ServiceNames[svcCur]
           res == make_get_http(name, svcChild, svcExt)
       IN  /\ svcPolls' = svcPolls + 1
           /\ IF res = "raise"
              THEN /\ ToStopAll("TimeoutException")
                   /\ UNCHANGED svcPassed
              ELSE IF res = "true"
              THEN /\ svcPassed' = svcPassed \cup {name}
                   /\ IF svcCur < Len(ServiceNames)
                      THEN /\ svcPc' = "_start_proc"
                           /\ svcCur' = svcCur + 1
                      ELSE /\ svcPc' = IF svcMode = "fixture" THEN "yield" ELSE "wait_for_all"
                           /\ svcCur' = 1
                   /\ UNCHANGED <<svcErr, svcStopped>>
              ELSE IF svcPolls + 1 >= PollLimit
              THEN /\ ToStopAll("RuntimeError")
                   /\ UNCHANGED svcPassed
              ELSE UNCHANGED <<svcPc, svcCur, svcErr, svcStopped, svcPassed>>
    /\ UNCHANGED <<svcMode, svcEnv, svcKind, svcExt, svcChild, svcSpawned, svcPre,
                   svcSignals, svcSkipped, pubVars, outsideSvc>>

\* The program is interrupted while it sleeps or waits.
Interrupt ==
    /\ svcPc \in {"poll", "yield", "wait_for_all"}
    /\ ToStopAll("KeyboardInterrupt")
    /\ UNCHANGED <<svcMode, svcEnv, svcKind, svcExt, svcPolls, svcChild, svcSpawned,
                   svcPassed, svcPre, svcSignals, svcSkipped, pubVars, outsideSvc>>

\* The tests finish: the fixture resumes after its yield.
TestsFinish ==
    /\ svcPc = "yield"
    /\ ToStopAll("none")
    /\ UNCHANGED <<svcMode, svcEnv, svcKind, svcExt, svcPolls, svcChild, svcSpawned,
                   svcPassed, svcPre, svcSignals, svcSkipped, pubVars, outsideSvc>>

\* wait_for_all: proc.wait() returns when the child has exited.
Wait(pc, after) ==
    /\ svcPc = pc
    /\ IF svcCur > Len(svcSpawned)
       THEN /\ IF after = "stop_all" THEN ToStopAll("none")
               ELSE /\ svcPc' = after
                    /\ UNCHANGED <<svcCur, svcErr, svcStopped>>
            /\ UNCHANGED svcChild
       ELSE /\ svcChild[svcSpawned[svcCur]] \in {"exited", "reaped"}
            /\ svcChild' = [svcChild EXCEPT ![svcSpawned[svcCur]] = "reaped"]
            /\ svcCur' = svcCur + 1
            /\ UNCHANGED <<svcPc, svcErr, svcStopped>>
    /\ UNCHANGED <<svcMode, svcEnv, svcKind, svcExt, svcPolls, svcSpawned,
                   svcPassed, svcPre, svcSignals, svcSkipped, pubVars, outsideSvc>>

WaitForAll == Wait("wait_for_all", "stop_all")
WaitForAllAfter == Wait("wait_after", "done")

\* os.kill raises ProcessLookupError for a child that was waited for.
KillRaisesAlways(name) == TRUE
KillRaises(name) == svcChild[name] \in {"none", "reaped"}

\* stop_all: os.kill(proc.pid, signal.SIGTERM)
StopTerm ==
    /\ svcPc = "stop_all"
    /\ svcCur <= Len(svcSpawned)
    /\ LET name == svcSpawned[svcCur]
       IN  IF KillRaises(name)
           THEN /\ svcSkipped' = svcSkipped \cup {name}
                /\ svcCur' = svcCur + 1
                /\ UNCHANGED <<svcPc, svcSignals>>
           ELSE /\ svcSignals' = Append(svcSignals, Signal(name, "SIGTERM"))
                /\ svcPc' = "stop_hup"
                /\ UNCHANGED <<svcCur, svcSkipped>>
    /\ UNCHANGED <<svcMode, svcEnv, svcKind, svcExt, svcPolls, svcChild, svcSpawned,
                   svcPassed, svcPre, svcErr, svcStopped, pubVars, outsideSvc>>

\* stop_all: time.sleep(1); os.kill(proc.pid, signal.SIGHUP)
StopHup ==
    /\ svcPc = "stop_hup"
    /\ LET name == svcSpawned[svcCur]
       IN  IF KillRaises(name)
           THEN /\ svcSkipped' = svcSkipped \cup {name}
                /\ UNCHANGED svcSignals
           ELSE /\ svcSignals' = Append(svcSignals, Signal(name, "SIGHUP"))
                /\ UNCHANGED svcSkipped
    /\ svcCur' = svcCur + 1
    /\ svcPc' = "stop_all"
    /\ UNCHANGED <<svcMode, svcEnv, svcKind, svcExt, svcPolls, svcChild, svcSpawned,
                   svcPassed, svcPre, svcErr, svcStopped, pubVars, outsideSvc>>

\* stop_all returns: the exception goes on, the fixture waits, main ends.
Stopped ==
    /\ svcPc = "stop_all"
    /\ svcCur > Len(svcSpawned)
    /\ svcPc' = IF svcErr # "none" THEN "raised"
                ELSE IF svcMode = "fixture" THEN "wait_after"
                ELSE "done"
    /\ svcCur' = 1
    /\ UNCHANGED <<svcMode, svcEnv, svcKind, svcExt, svcPolls, svcChild, svcSpawned,
                   svcPassed, svcPre, svcSignals, svcSkipped, svcErr, svcStopped,
                   pubVars, outsideSvc>>

\* A child starts to answer at its endpoint.
ChildUp ==
    /\ \E name \in ServiceSet :
         /\ svcChild[name] = "starting"
         /\ svcChild' = [svcChild EXCEPT ![name] = "up"]
    /\ UNCHANGED <<svcPc, svcMode, svcEnv, svcKind, svcExt, svcCur, svcPolls, svcSpawned,
                   svcPassed, svcPre, svcSignals, svcSkipped, svcErr, svcStopped,
                   pubVars, outsideSvc>>

\* A child exits, on a signal or on its own.
ChildExit ==
    /\ \E name \in ServiceSet :
         /\ svcChild[name] \in {"starting", "up"}
         /\ svcChild' = [svcChild EXCEPT ![name] = "exited"]
    /\ UNCHANGED <<svcPc, svcMode, svcEnv, svcKind, svcExt, svcCur, svcPolls, svcSpawned,
                   svcPassed, svcPre, svcSignals, svcSkipped, svcErr, svcStopped,
                   pubVars, outsideSvc>>

InitServices == IdlePub /\ IdleOld /\ IdleMore
NextServices ==
    \/ services \/ main
    \/ ExternalCheck \/ ExternalStarted
    \/ Setup \/ StartProc \/ Poll
    \/ Interrupt \/ TestsFinish
    \/ WaitForAll \/ WaitForAllAfter
    \/ StopTerm \/ StopHup \/ Stopped
    \/ ChildUp \/ ChildExit
SpecServices == InitServices /\ [][NextServices]_vars

\* What the spec asks of the fixture when the variable var is set to 1, and
\* when it is not.
Signalled(name) ==
    \E a, b \in 1..Len(svcSignals) :
        /\ a < b
        /\ svcSignals[a] = Signal(name, "SIGTERM")
        /\ svcSignals[b] = Signal(name, "SIGHUP")
ExternalContract(var) ==
    svcMode = "fixture" =>
        IF var \in svcEnv
        THEN /\ svcSpawned = << >>
             /\ svcSignals = << >>
             /\ svcPc = "yield" => \A s \in ServiceSet : svcPre[s] = "true"
             /\ (\E s \in ServiceSet : svcPre[s] \in {"false", "raise"}) =>
                    svcPc = "start_all" \/ svcErr # "none"
        ELSE /\ svcPc = "yield" =>
                    \A s \in ServiceSet : svcChild[s] # "none"
             /\ svcPc = "done" =>
                    \A i \in 1..Len(svcSpawned) :
                        Signalled(svcSpawned[i]) \/ svcSpawned[i] \in svcSkipped

\* C17: with USE_EXTERNAL_SERVICES=1 in the environment the services
\* fixture spawns no process and stops none, and only checks that the
\* services are available, failing if a check fails; otherwise it starts
\* the services as children and stops them when the tests finish.
C17_ExternalServices == ExternalContract("USE_EXTERNAL_SERVICES")

\* C18: start_all starts broker, publisher, subscriber in this order, each
\* only after the check of every earlier service returned true; a check
\* that succeeds before the start raises RuntimeError and nothing is
\* spawned for the service; a check that does not succeed in 10 polls, one
\* second apart, makes start_all raise.
C18_StartOrder ==
    svcKind = "ManagedServices" =>
        /\ \A i \in 1..Len(svcSpawned) :
              /\ svcSpawned[i] = ServiceNames[i]
              /\ \A j \in 1..(i - 1) : ServiceNames[j] \in svcPassed
        /\ \A s \in ServiceSet :
              svcPre[s] = "true" =>
                  /\ svcChild[s] = "none"
                  /\ svcErr = "RuntimeError"
                  /\ svcPc \in {"stop_all", "stop_hup", "raised"}
        /\ svcPolls * start_sleep_secs <= start_timeout_secs
        /\ (/\ svcSpawned # << >>
            /\ svcPolls * start_sleep_secs = start_timeout_secs
            /\ svcSpawned[Len(svcSpawned)] \notin svcPassed) =>
                  /\ svcErr \in {"RuntimeError", "TimeoutException"}
                  /\ svcPc \in {"stop_all", "stop_hup", "raised"}

\* The three services were started, each after the one before it answered.
C18_Witness ==
    /\ svcKind = "ManagedServices"
    /\ svcSpawned = ServiceNames
    /\ svcPassed = ServiceSet
    /\ svcPolls = 3

Location(path) == Normalize(path)
UnderRoot(path) == IsPrefix(C2Root, Location(path)) /\ Location(path) # C2Root
DotName(name) == \E i \in 1..Len(name) : name[i] = "." \/ name[i] = ".."
Created == c2fs \ c2Before

\* C21: the export never writes outside the new root: export() fails and
\* exports nothing when the target exists; a node whose name has a "." or
\* ".." component is skipped with a warning and nothing is created for it;
\* every directory and '.b2nd' file created lies under the root at the path
\* name of a group or dataset of the file.
C21_InsideNewRoot ==
    /\ (h5Pc # "idle" /\ Exists(c2Before, C2Root)) =>
          /\ h5Pc = "refused"
          /\ c2fs = c2Before
          /\ h5Seen = << >>
    /\ \A i \in 1..Len(h5Seen) :
          DotName(h5Seen[i].name) =>
              /\ Reported("warning", "node name", h5Seen[i].name, "")
              /\ \A e \in Created :
                    e.path \notin {C2Root \o h5Seen[i].name, B2Path(h5Seen[i].name)}
    /\ \A e \in Created :
          \/ e = DirEntry(C2Root)
          \/ /\ UnderRoot(e.path)
             /\ \E i \in 1..Len(h5Seen) :
                   /\ ~DotName(h5Seen[i].name)
                   /\ \/ /\ h5Seen[i].kind = "group"
                         /\ e.kind = "dir"
                         /\ e.path = C2Root \o h5Seen[i].name
                      \/ /\ h5Seen[i].kind = "dataset"
                         /\ e.kind = "file"
                         /\ e.path = B2Path(h5Seen[i].name)

\* A group, a dataset in it and a node named ".." were visited in a new
\* root: the first two were exported, the third was skipped.
C21_Witness ==
    /\ h5Pc = "done"
    /\ Len(h5Seen) = 3
    /\ \E i \in 1..3 : DotName(h5Seen[i].name)
    /\ \E e \in Created : e.kind = "file" /\ Len(e.path) = 3

=============================================================================
